---------------------------- MODULE Spec2Model ----------------------------
(***************************************************************************)
(* Model of the rule-based core of the benefits assistant:                 *)
(*   - ManagerAgent._determine_query_type   (query classifier)             *)
(*   - WellnessAgent._generate_health_recommendations (wellness rules)     *)
(*   - ManagerAgent._format_response and its extractors (formatter)        *)
(*                                                                         *)
(* Python strings are modelled as sequences of one-character strings, so   *)
(* that lower(), strip(), split(), startswith() and the substring test     *)
(* `in` are computed character by character, as the interpreter does.      *)
(* Values that the code only ever returns as fixed literals and never      *)
(* inspects (the topic labels) are kept as TLA+ strings.                   *)
(***************************************************************************)
EXTENDS Integers, Sequences, FiniteSets, TLC

VARIABLES
    query,          \* classifier: the query string handed to _determine_query_type
    query_type,     \* classifier: the label it returned
    cls_pc,         \* classifier: "idle" (not part of the run), "call" or "done"
    metrics,        \* wellness: the metrics dict (a function on the keys present)
    risk_factors,   \* wellness: the risk_factors list
    recommendations,\* wellness: the list _generate_health_recommendations returned
    wel_pc,         \* wellness: "idle", "call" or "done"
    raw,            \* formatter: analysis_result, the raw text to format
    arg_debug_info, \* formatter: the debug_info argument ([] for None)
    arg_action_items, \* formatter: the action_items argument (None or a list)
    response,       \* formatter: the dict _format_response returned
    fmt_pc,         \* formatter: "idle", "call" or "done"
    policies,       \* policy agent: self.policies, the topic -> statements dict
    pol_arg,        \* policy agent: the query_type handed to get_relevant_policies
    pol_result,     \* policy agent: the list it returned (owned by the caller)
    pol_default,    \* policy agent: TRUE iff the call fell back to the default entry
    pol_pc,         \* policy agent: "idle", "wait", "call" or "done"
    earlier,        \* policy agent's caller: query, label and result of the earlier calls
    wellness_rows,  \* repository: response.data of the mock_wellness_data query (0 or 1 row)
    db_error,       \* repository: TRUE iff the Supabase query raises
    assessment,     \* repository: the dict get_employee_risk_assessment returned
    risk_pc,        \* repository: "idle", "call" or "done"
    chat_table,     \* repository: the rows of mock_chat_history, in insertion order
    clock,          \* repository: the time datetime.now() returns next
    chat_call,      \* repository: the last chat-history call, its arguments and its result
    stored,         \* history: per employee, the successful saves and their messages
    chat_pc,        \* repository: "idle" or "ready"
    fmt_log,        \* formatter: arguments and result of its earlier calls
    requests,       \* facade: per request, the entry point called and its arguments
    world,          \* facade: per request, what its collaborators do (faults, generated text)
    fpc,            \* facade: per request, the step analyze_query is at
    frame,          \* facade: the local variables of the calls of analyze_query
    llm_calls,      \* facade: per request, the number of calls of llm_chain.run
    result,         \* facade: per request, the dict returned to the caller
    wa_returned,    \* wellness agent: what get_employee_risk_assessment returned (<<>> for None)
    wa_analysis,    \* wellness agent: what get_wellness_analysis returned or raised
    wa_pc,          \* wellness agent: "idle", "call" or "done"
    conversation_store,\* chat router: conversation_store, key -> list of messages
    conv_appended,  \* history: per key, every message appended under it
    chat_requests,  \* chat router: per request, the ChatMessage posted and what its collaborators do
    chat_step,      \* chat router: per request, the step process_chat_message is at
    chat_reply,     \* chat router: per request, the HTTP status and the ChatResponse
    ps_rows,        \* repository: response.data of the policy table query
    ps_fails,       \* repository: TRUE iff the policy table query raises
    ps_query,       \* repository: the query handed to get_relevant_policies
    ps_result,      \* repository: the list get_relevant_policies returned
    ps_pc,          \* repository: "idle", "call" or "done"
    el_request,     \* the employee_id and query of the call of analyze_benefits_scenario
    el_world,       \* what the collaborators of the call return or raise
    el_profile,     \* the profile read by the call
    el_exec_calls,  \* number of calls of self.execute
    el_result,      \* the dict the call returned
    el_pc           \* position of the call

clsVars == <<query, query_type, cls_pc>>
welVars == <<metrics, risk_factors, recommendations, wel_pc>>
fmtVars == <<raw, arg_debug_info, arg_action_items, response, fmt_pc>>
polVars == <<policies, pol_arg, pol_result, pol_default, pol_pc, earlier>>
\* the components outside the rule-based core
riskVars == <<wellness_rows, db_error, assessment, risk_pc>>
chatVars == <<chat_table, clock, chat_call, stored, chat_pc>>
logVars == <<fmt_log>>
facVars == <<requests, world, fpc, frame, llm_calls, result>>
waVars == <<wa_returned, wa_analysis, wa_pc>>
convVars == <<conversation_store, conv_appended, chat_requests, chat_step, chat_reply>>
psVars == <<ps_rows, ps_fails, ps_query, ps_result, ps_pc>>
elVars == <<el_request, el_world, el_profile, el_exec_calls, el_result, el_pc>>
extVars == <<polVars, riskVars, chatVars, logVars, facVars, waVars, convVars, psVars, elVars>>
\* the components outside the core other than the one named
butPolicy == <<riskVars, chatVars, logVars, facVars, waVars, convVars, psVars, elVars>>
butRisk == <<polVars, chatVars, logVars, facVars, waVars, convVars, psVars, elVars>>
butChat == <<polVars, riskVars, logVars, facVars, waVars, convVars, psVars, elVars>>
butLog == <<polVars, riskVars, chatVars, facVars, waVars, convVars, psVars, elVars>>
butFacade == <<polVars, riskVars, chatVars, logVars, waVars, convVars, psVars, elVars>>
butConversation == <<polVars, riskVars, chatVars, logVars, facVars, waVars, psVars, elVars>>
butAnalysis == <<polVars, riskVars, chatVars, logVars, facVars, convVars, psVars, elVars>>
butEligibility == <<polVars, riskVars, chatVars, logVars, facVars, waVars, convVars, psVars>>
butSearch == <<polVars, riskVars, chatVars, logVars, facVars, waVars, convVars, elVars>>
vars == <<clsVars, welVars, fmtVars, extVars>>

\* the components that take no part in a run stay in these states
IdleClassifier == query = <<>> /\ query_type = "" /\ cls_pc = "idle"
IdleWellness ==
    metrics = <<>> /\ risk_factors = <<>> /\ recommendations = <<>> /\ wel_pc = "idle"
IdleFormatter ==
    /\ raw = <<>> /\ arg_debug_info = <<>> /\ arg_action_items = <<>>
    /\ response = <<>> /\ fmt_pc = "idle"
IdlePolicy ==
    /\ policies = <<>> /\ pol_arg = "" /\ pol_result = <<>> /\ pol_default = FALSE
    /\ pol_pc = "idle" /\ earlier = <<>>
IdleRisk ==
    wellness_rows = <<>> /\ db_error = FALSE /\ assessment = <<>> /\ risk_pc = "idle"
IdleChat ==
    /\ chat_table = <<>> /\ clock = 0 /\ chat_call = <<>> /\ stored = <<>>
    /\ chat_pc = "idle"
IdleLog == fmt_log = <<>>
IdleFacade ==
    /\ requests = <<>> /\ world = <<>> /\ fpc = <<>> /\ frame = <<>>
    /\ llm_calls = <<>> /\ result = <<>>
IdleAnalysis ==
    wa_returned = <<>> /\ wa_analysis = <<>> /\ wa_pc = "idle"
IdleConversation ==
    conversation_store = <<>> /\ conv_appended = <<>> /\ chat_requests = <<>> /\ chat_step = <<>> /\ chat_reply = <<>>
IdleSearch ==
    ps_rows = <<>> /\ ps_fails = FALSE /\ ps_query = <<>> /\ ps_result = <<>> /\ ps_pc = "idle"
IdleEligibility ==
    /\ el_request = <<>> /\ el_world = <<>> /\ el_profile = <<>>
    /\ el_exec_calls = 0 /\ el_result = <<>> /\ el_pc = "idle"
\* every component outside the core but c is idle
IdleExt(c) ==
    /\ (c # "policy" => IdlePolicy)
    /\ (c # "risk" => IdleRisk)
    /\ (c # "chat" => IdleChat)
    /\ (c # "log" => IdleLog)
    /\ (c # "facade" => IdleFacade)
    /\ (c # "wa" => IdleAnalysis)
    /\ (c # "conv" => IdleConversation)
    /\ (c # "ps" => IdleSearch)
    /\ (c # "el" => IdleEligibility)

-----------------------------------------------------------------------------
(* Python str primitives.                                                  *)

Uppers == <<"A","B","C","D","E","F","G","H","I","J","K","L","M",
            "N","O","P","Q","R","S","T","U","V","W","X","Y","Z">>
Lowers == <<"a","b","c","d","e","f","g","h","i","j","k","l","m",
            "n","o","p","q","r","s","t","u","v","w","x","y","z">>

UpperSet == {Uppers[i] : i \in 1..26}
LowerMap == [c \in UpperSet |-> Lowers[CHOOSE i \in 1..26 : Uppers[i] = c]]

\* str.lower() on one character
LowerChar(c) == IF c \in UpperSet THEN LowerMap[c] ELSE c

\* str.lower()
Lower(s) == [i \in 1..Len(s) |-> LowerChar(s[i])]

\* the characters str.strip() removes
Whitespace == {" ", "\n", "\t", "\r"}

\* index of the first occurrence of t in s at or after position from, 0 if none
FindFrom(s, t, from) ==
    LET hits == {i \in from..(Len(s) - Len(t) + 1) :
                    t = <<>> \/ (s[i] = t[1] /\ SubSeq(s, i, i + Len(t) - 1) = t)}
    IN  IF hits = {} THEN 0 ELSE CHOOSE i \in hits : \A j \in hits : i <= j

\* str.find(t) + 1
Find(s, t) == FindFrom(s, t, 1)

\* t in s
Contains(s, t) == Find(s, t) # 0

\* s.startswith(t)
StartsWith(s, t) == Len(s) >= Len(t) /\ SubSeq(s, 1, Len(t)) = t

\* s.strip()
Strip(s) ==
    LET keep == {i \in 1..Len(s) : s[i] \notin Whitespace}
    IN  IF keep = {} THEN <<>>
        ELSE SubSeq(s, CHOOSE i \in keep : \A j \in keep : i <= j,
                       CHOOSE i \in keep : \A j \in keep : i >= j)

\* s.split(sep): the pieces between the non-overlapping occurrences of sep,
\* found left to right
RECURSIVE Split(_, _)
Split(s, sep) ==
    LET i == Find(s, sep)
    IN  IF i = 0 THEN <<s>>
        ELSE <<SubSeq(s, 1, i - 1)>> \o Split(SubSeq(s, i + Len(sep), Len(s)), sep)

\* sep.join(parts)
RECURSIVE Join(_, _)
Join(parts, sep) ==
    IF parts = <<>> THEN <<>>
    ELSE IF Len(parts) = 1 THEN parts[1]
    ELSE parts[1] \o sep \o Join(Tail(parts), sep)

-----------------------------------------------------------------------------
(* ManagerAgent._determine_query_type                                      *)

\* "hsa"
KW_hsa == <<"h","s","a">>
\* "fsa"
KW_fsa == <<"f","s","a">>
\* "cobra"
KW_cobra == <<"c","o","b","r","a">>
\* "contribution"
KW_contribution == <<"c","o","n","t","r","i","b","u","t","i","o","n">>
\* "reimbursement"
KW_reimbursement == <<"r","e","i","m","b","u","r","s","e","m","e","n","t">>

\* the labels _determine_query_type can return
Topics == {"HSA Benefits", "FSA Reimbursement Process", "FSA Contribution Changes",
           "FSA Benefits", "HSA Contribution Limits", "COBRA Benefits",
           "General Benefits"}

\* Mutant: the query is not case-normalised before the keyword tests.
DetermineNoLower(q) ==
    IF Contains(q, KW_hsa) /\ Contains(q, KW_fsa) THEN "HSA Benefits"
    ELSE IF Contains(q, KW_fsa) /\ Contains(q, KW_reimbursement)
         THEN "FSA Reimbursement Process"
    ELSE IF Contains(q, KW_fsa) /\ Contains(q, KW_contribution)
         THEN "FSA Contribution Changes"
    ELSE IF Contains(q, KW_fsa) THEN "FSA Benefits"
    ELSE IF Contains(q, KW_hsa) /\ Contains(q, KW_contribution)
         THEN "HSA Contribution Limits"
    ELSE IF Contains(q, KW_hsa) THEN "HSA Benefits"
    ELSE IF Contains(q, KW_cobra) THEN "COBRA Benefits"
    ELSE "General Benefits"

\* Mutant: the single-keyword FSA rule is tested before the two-keyword rules.
DetermineFsaFirst(q) ==
    LET lq == Lower(q)
    IN  IF Contains(lq, KW_hsa) /\ Contains(lq, KW_fsa) THEN "HSA Benefits"
        ELSE IF Contains(lq, KW_fsa) THEN "FSA Benefits"
        ELSE IF Contains(lq, KW_fsa) /\ Contains(lq, KW_reimbursement)
             THEN "FSA Reimbursement Process"
        ELSE IF Contains(lq, KW_fsa) /\ Contains(lq, KW_contribution)
             THEN "FSA Contribution Changes"
        ELSE IF Contains(lq, KW_hsa) /\ Contains(lq, KW_contribution)
             THEN "HSA Contribution Limits"
        ELSE IF Contains(lq, KW_hsa) THEN "HSA Benefits"
        ELSE IF Contains(lq, KW_cobra) THEN "COBRA Benefits"
        ELSE "General Benefits"

\* query = query.lower(); then the ordered if/elif chain, first match wins
\* Mutant: the COBRA rule returns a label that is no key of the policy table.
DetermineShortCobra(q) ==
    LET lq == Lower(q)
    IN  IF Contains(lq, KW_hsa) /\ Contains(lq, KW_fsa) THEN "HSA Benefits"
        ELSE IF Contains(lq, KW_fsa) /\ Contains(lq, KW_reimbursement)
             THEN "FSA Reimbursement Process"
        ELSE IF Contains(lq, KW_fsa) /\ Contains(lq, KW_contribution)
             THEN "FSA Contribution Changes"
        ELSE IF Contains(lq, KW_fsa) THEN "FSA Benefits"
        ELSE IF Contains(lq, KW_hsa) /\ Contains(lq, KW_contribution)
             THEN "HSA Contribution Limits"
        ELSE IF Contains(lq, KW_hsa) THEN "HSA Benefits"
        ELSE IF Contains(lq, KW_cobra) THEN "COBRA"
        ELSE "General Benefits"

DetermineQueryType(q) ==
    LET lq == Lower(q)
    IN  IF Contains(lq, KW_hsa) /\ Contains(lq, KW_fsa) THEN "HSA Benefits"
        ELSE IF Contains(lq, KW_fsa) /\ Contains(lq, KW_reimbursement)
             THEN "FSA Reimbursement Process"
        ELSE IF Contains(lq, KW_fsa) /\ Contains(lq, KW_contribution)
             THEN "FSA Contribution Changes"
        ELSE IF Contains(lq, KW_fsa) THEN "FSA Benefits"
        ELSE IF Contains(lq, KW_hsa) /\ Contains(lq, KW_contribution)
             THEN "HSA Contribution Limits"
        ELSE IF Contains(lq, KW_hsa) THEN "HSA Benefits"
        ELSE IF Contains(lq, KW_cobra) THEN "COBRA Benefits"
        ELSE "General Benefits"

-----------------------------------------------------------------------------
(* Inputs of the classifier: up to MaxQueryWords words, joined by blanks.  *)

MaxQueryWords == 3

QueryWords ==
    << <<"h","s","a">>,                                             \* hsa
       <<"H","S","A">>,                                             \* HSA
       <<"f","s","a">>,                                             \* fsa
       <<"F","S","A","s">>,                                         \* FSAs
       <<"c","o","b","r","a">>,                                     \* cobra
       <<"C","o","n","t","r","i","b","u","t","i","o","n">>,         \* Contribution
       <<"r","e","i","m","b","u","r","s","e","m","e","n","t">>,     \* reimbursement
       <<"R","E","I","M","B","U","R","S","E","M","E","N","T">>,     \* REIMBURSEMENT
       <<"p","l","a","n">> >>                                       \* plan

QueryWordSeqs == UNION {[1..n -> 1..Len(QueryWords)] : n \in 0..MaxQueryWords}

QueryOf(ws) == Join([i \in 1..Len(ws) |-> QueryWords[ws[i]]], <<" ">>)

InitClassify ==
    /\ \E ws \in QueryWordSeqs : query = QueryOf(ws)
    /\ query_type = ""
    /\ cls_pc = "call"
    /\ IdleWellness
    /\ IdleFormatter
    /\ IdleExt("core")

\* query_type = self._determine_query_type(query)
Classify ==
    /\ cls_pc = "call"
    /\ query_type' = DetermineQueryType(query)
    /\ cls_pc' = "done"
    /\ UNCHANGED <<query, welVars, fmtVars, extVars>>

NextClassify == Classify

SpecClassify == InitClassify /\ [][NextClassify]_vars

-----------------------------------------------------------------------------
(* WellnessAgent._generate_health_recommendations                          *)

MetricKeys == {"heart_rate", "sleep_hours", "exercise_minutes", "daily_steps", "stress_level"}

\* thresholds of the five comparisons
HEART_RATE_LIMIT == 80
SLEEP_HOURS_MIN == 7
EXERCISE_MINUTES_MIN == 30
DAILY_STEPS_MIN == 8000
STRESS_LEVEL_LIMIT == 6
\* metrics.get(key, 0)
METRIC_DEFAULT == 0

\* Python values a metric can hold: an int, a str, or None
IntVal(n) == [kind |-> "int", val |-> n, str |-> <<>>]
StrVal(s) == [kind |-> "str", val |-> 0, str |-> s]
NoneVal == [kind |-> "none", val |-> 0, str |-> <<>>]

Digits == <<"0","1","2","3","4","5","6","7","8","9">>
IsDigit(c) == \E i \in 1..10 : Digits[i] = c
DigitVal(c) == (CHOOSE i \in 1..10 : Digits[i] = c) - 1

RECURSIVE DigitsToInt(_)
DigitsToInt(s) ==
    IF s = <<>> THEN 0
    ELSE DigitsToInt(SubSeq(s, 1, Len(s) - 1)) * 10 + DigitVal(s[Len(s)])

\* int(v): [ok |-> TRUE, val |-> n], or ok = FALSE where Python raises
\* ValueError (a str that is no integer literal) or TypeError (None)
IntOf(v) ==
    IF v.kind = "int" THEN [ok |-> TRUE, val |-> v.val]
    ELSE IF v.kind = "str" THEN
        LET t    == Strip(v.str)
            neg  == t # <<>> /\ t[1] = "-"
            body == IF t # <<>> /\ t[1] \in {"-", "+"} THEN Tail(t) ELSE t
        IN  IF body # <<>> /\ \A i \in 1..Len(body) : IsDigit(body[i])
            THEN [ok |-> TRUE, val |-> IF neg THEN 0 - DigitsToInt(body) ELSE DigitsToInt(body)]
            ELSE [ok |-> FALSE, val |-> 0]
    ELSE [ok |-> FALSE, val |-> 0]

\* metrics.get(key, 0)
MetricGet(m, k) == IF k \in DOMAIN m THEN m[k] ELSE IntVal(METRIC_DEFAULT)

\* "Your heart rate is elevated. Consider incorporating more cardiovascular exercise and stress reduction techniques."
MSG_HEART_RATE == <<"Y","o","u","r"," ","h","e","a","r","t"," ","r","a","t","e"," ","i","s"," ",
    "e","l","e","v","a","t","e","d","."," ","C","o","n","s","i","d","e","r"," ","i","n","c","o",
    "r","p","o","r","a","t","i","n","g"," ","m","o","r","e"," ","c","a","r","d","i","o","v","a",
    "s","c","u","l","a","r"," ","e","x","e","r","c","i","s","e"," ","a","n","d"," ","s","t","r",
    "e","s","s"," ","r","e","d","u","c","t","i","o","n"," ","t","e","c","h","n","i","q","u","e",
    "s",".">>
\* "You're getting less than the recommended amount of sleep. Try to establish a regular sleep schedule aiming for 7-9 hours."
MSG_SLEEP == <<"Y","o","u","'","r","e"," ","g","e","t","t","i","n","g"," ","l","e","s","s"," ",
    "t","h","a","n"," ","t","h","e"," ","r","e","c","o","m","m","e","n","d","e","d"," ","a","m",
    "o","u","n","t"," ","o","f"," ","s","l","e","e","p","."," ","T","r","y"," ","t","o"," ","e",
    "s","t","a","b","l","i","s","h"," ","a"," ","r","e","g","u","l","a","r"," ","s","l","e","e",
    "p"," ","s","c","h","e","d","u","l","e"," ","a","i","m","i","n","g"," ","f","o","r"," ","7",
    "-","9"," ","h","o","u","r","s",".">>
\* "Increase your daily physical activity to at least 30 minutes of moderate exercise most days."
MSG_EXERCISE == <<"I","n","c","r","e","a","s","e"," ","y","o","u","r"," ","d","a","i","l","y"," ",
    "p","h","y","s","i","c","a","l"," ","a","c","t","i","v","i","t","y"," ","t","o"," ","a","t",
    " ","l","e","a","s","t"," ","3","0"," ","m","i","n","u","t","e","s"," ","o","f"," ","m","o",
    "d","e","r","a","t","e"," ","e","x","e","r","c","i","s","e"," ","m","o","s","t"," ","d","a",
    "y","s",".">>
\* "Try to increase your daily step count. A goal of 10,000 steps per day can improve overall health."
MSG_STEPS == <<"T","r","y"," ","t","o"," ","i","n","c","r","e","a","s","e"," ","y","o","u","r",
    " ","d","a","i","l","y"," ","s","t","e","p"," ","c","o","u","n","t","."," ","A"," ","g","o",
    "a","l"," ","o","f"," ","1","0",",","0","0","0"," ","s","t","e","p","s"," ","p","e","r"," ",
    "d","a","y"," ","c","a","n"," ","i","m","p","r","o","v","e"," ","o","v","e","r","a","l","l",
    " ","h","e","a","l","t","h",".">>
\* "Your stress levels are elevated. Consider stress management techniques like meditation or counseling."
MSG_STRESS == <<"Y","o","u","r"," ","s","t","r","e","s","s"," ","l","e","v","e","l","s"," ","a",
    "r","e"," ","e","l","e","v","a","t","e","d","."," ","C","o","n","s","i","d","e","r"," ","s",
    "t","r","e","s","s"," ","m","a","n","a","g","e","m","e","n","t"," ","t","e","c","h","n","i",
    "q","u","e","s"," ","l","i","k","e"," ","m","e","d","i","t","a","t","i","o","n"," ","o","r",
    " ","c","o","u","n","s","e","l","i","n","g",".">>
\* "Consider scheduling a wellness check-up to establish your baseline health metrics."
MSG_UNPARSEABLE == <<"C","o","n","s","i","d","e","r"," ","s","c","h","e","d","u","l","i","n","g",
    " ","a"," ","w","e","l","l","n","e","s","s"," ","c","h","e","c","k","-","u","p"," ","t","o",
    " ","e","s","t","a","b","l","i","s","h"," ","y","o","u","r"," ","b","a","s","e","l","i","n",
    "e"," ","h","e","a","l","t","h"," ","m","e","t","r","i","c","s",".">>
\* "Discuss identified health risk factors with your healthcare provider during your next visit."
MSG_PROVIDER == <<"D","i","s","c","u","s","s"," ","i","d","e","n","t","i","f","i","e","d"," ","h",
    "e","a","l","t","h"," ","r","i","s","k"," ","f","a","c","t","o","r","s"," ","w","i","t","h",
    " ","y","o","u","r"," ","h","e","a","l","t","h","c","a","r","e"," ","p","r","o","v","i","d",
    "e","r"," ","d","u","r","i","n","g"," ","y","o","u","r"," ","n","e","x","t"," ","v","i","s",
    "i","t",".">>
\* "Schedule a wellness check-up to establish your baseline health metrics."
MSG_DEFAULT == <<"S","c","h","e","d","u","l","e"," ","a"," ","w","e","l","l","n","e","s","s"," ",
    "c","h","e","c","k","-","u","p"," ","t","o"," ","e","s","t","a","b","l","i","s","h"," ","y",
    "o","u","r"," ","b","a","s","e","l","i","n","e"," ","h","e","a","l","t","h"," ","m","e","t",
    "r","i","c","s",".">>

\* the advisories appended by the five comparisons, in program order
ThresholdAdvisories(hr, sl, ex, st, ss) ==
       (IF hr > HEART_RATE_LIMIT THEN <<MSG_HEART_RATE>> ELSE <<>>)
    \o (IF sl < SLEEP_HOURS_MIN THEN <<MSG_SLEEP>> ELSE <<>>)
    \o (IF ex < EXERCISE_MINUTES_MIN THEN <<MSG_EXERCISE>> ELSE <<>>)
    \o (IF st < DAILY_STEPS_MIN THEN <<MSG_STEPS>> ELSE <<>>)
    \o (IF ss > STRESS_LEVEL_LIMIT THEN <<MSG_STRESS>> ELSE <<>>)

\* Mutant: the heart-rate and stress comparisons are not strict (>= for >).
GenerateNonStrict(m, rf) ==
    LET hr == IntOf(MetricGet(m, "heart_rate"))
        sl == IntOf(MetricGet(m, "sleep_hours"))
        ex == IntOf(MetricGet(m, "exercise_minutes"))
        st == IntOf(MetricGet(m, "daily_steps"))
        ss == IntOf(MetricGet(m, "stress_level"))
        tried == IF hr.ok /\ sl.ok /\ ex.ok /\ st.ok /\ ss.ok
                 THEN ThresholdAdvisories(hr.val + 1, sl.val, ex.val, st.val, ss.val + 1)
                 ELSE <<MSG_UNPARSEABLE>>
        recs == tried \o (IF rf # <<>> THEN <<MSG_PROVIDER>> ELSE <<>>)
    IN  IF recs # <<>> THEN recs ELSE <<MSG_DEFAULT>>

\* The try block converts all five metrics first (absent ones default to 0);
\* the first conversion that raises leaves the list empty and jumps to the
\* except clause, which appends the check-up sentence. Then the risk-factor
\* sentence, then `recommendations or [default]`.
GenerateHealthRecommendations(m, rf) ==
    LET hr == IntOf(MetricGet(m, "heart_rate"))
        sl == IntOf(MetricGet(m, "sleep_hours"))
        ex == IntOf(MetricGet(m, "exercise_minutes"))
        st == IntOf(MetricGet(m, "daily_steps"))
        ss == IntOf(MetricGet(m, "stress_level"))
        tried == IF hr.ok /\ sl.ok /\ ex.ok /\ st.ok /\ ss.ok
                 THEN ThresholdAdvisories(hr.val, sl.val, ex.val, st.val, ss.val)
                 ELSE <<MSG_UNPARSEABLE>>
        recs == tried \o (IF rf # <<>> THEN <<MSG_PROVIDER>> ELSE <<>>)
    IN  IF recs # <<>> THEN recs ELSE <<MSG_DEFAULT>>

-----------------------------------------------------------------------------
(* Inputs of the wellness rule engine: every metric is absent, an int just *)
(* below, at or just above its threshold, a str holding a breaching        *)
(* integer, the str "N/A", or None; up to MaxRiskFactors risk factors.     *)

MaxRiskFactors == 2

RiskLabels == <<"High stress", "Low activity", "High blood pressure", "Obesity">>

RiskInputs == {[i \in 1..n |-> RiskLabels[((i - 1) % Len(RiskLabels)) + 1]] : n \in 0..MaxRiskFactors}

Threshold(k) ==
    CASE k = "heart_rate" -> HEART_RATE_LIMIT
      [] k = "sleep_hours" -> SLEEP_HOURS_MIN
      [] k = "exercise_minutes" -> EXERCISE_MINUTES_MIN
      [] k = "daily_steps" -> DAILY_STEPS_MIN
      [] k = "stress_level" -> STRESS_LEVEL_LIMIT

\* the breaching integer literals of the repository's tests, as str
BreachingStr(k) ==
    CASE k = "heart_rate" -> <<"8","5">>
      [] k = "sleep_hours" -> <<"5">>
      [] k = "exercise_minutes" -> <<"1","5">>
      [] k = "daily_steps" -> <<"4","0","0","0">>
      [] k = "stress_level" -> <<"8">>

MetricOptions == 0..6

MetricValue(k, opt) ==
    CASE opt = 1 -> IntVal(Threshold(k) - 1)
      [] opt = 2 -> IntVal(Threshold(k))
      [] opt = 3 -> IntVal(Threshold(k) + 1)
      [] opt = 4 -> StrVal(BreachingStr(k))
      [] opt = 5 -> StrVal(<<"N","/","A">>)
      [] opt = 6 -> NoneVal

MetricsOf(opts) == [k \in {x \in MetricKeys : opts[x] # 0} |-> MetricValue(k, opts[k])]

InitWellness ==
    /\ \E opts \in [MetricKeys -> MetricOptions] : metrics = MetricsOf(opts)
    /\ risk_factors \in RiskInputs
    /\ recommendations = <<>>
    /\ wel_pc = "call"
    /\ IdleClassifier
    /\ IdleFormatter
    /\ IdleExt("core")

\* recommendations = self._generate_health_recommendations(metrics, risk_factors)
Recommend ==
    /\ wel_pc = "call"
    /\ recommendations' = GenerateHealthRecommendations(metrics, risk_factors)
    /\ wel_pc' = "done"
    /\ UNCHANGED <<metrics, risk_factors, clsVars, fmtVars, extVars>>

NextWellness == Recommend

SpecWellness == InitWellness /\ [][NextWellness]_vars

-----------------------------------------------------------------------------
(* ManagerAgent._get_action_items: the list analyze_query hands to         *)
(* _format_response as action_items.                                       *)

\* _get_action_items, lines 461-467
ITEMS_FSA_REIMBURSEMENT ==
    <<
    \* "Collect all receipts and supporting documentation"
    <<"C","o","l","l","e","c","t"," ","a","l","l"," ","r","e","c","e","i","p","t","s"," ","a","n",
        "d"," ","s","u","p","p","o","r","t","i","n","g"," ","d","o","c","u","m","e","n","t","a",
        "t","i","o","n">>,
    \* "Verify each receipt shows date, provider, service, and amount paid"
    <<"V","e","r","i","f","y"," ","e","a","c","h"," ","r","e","c","e","i","p","t"," ","s","h","o",
        "w","s"," ","d","a","t","e",","," ","p","r","o","v","i","d","e","r",","," ","s","e","r",
        "v","i","c","e",","," ","a","n","d"," ","a","m","o","u","n","t"," ","p","a","i","d">>,
    \* "Complete the reimbursement form with accurate information"
    <<"C","o","m","p","l","e","t","e"," ","t","h","e"," ","r","e","i","m","b","u","r","s","e","m",
        "e","n","t"," ","f","o","r","m"," ","w","i","t","h"," ","a","c","c","u","r","a","t","e",
        " ","i","n","f","o","r","m","a","t","i","o","n">>,
    \* "Make copies or scans of all documentation before submitting"
    <<"M","a","k","e"," ","c","o","p","i","e","s"," ","o","r"," ","s","c","a","n","s"," ","o","f",
        " ","a","l","l"," ","d","o","c","u","m","e","n","t","a","t","i","o","n"," ","b","e","f",
        "o","r","e"," ","s","u","b","m","i","t","t","i","n","g">>,
    \* "Note your claim confirmation number for future reference"
    <<"N","o","t","e"," ","y","o","u","r"," ","c","l","a","i","m"," ","c","o","n","f","i","r","m",
        "a","t","i","o","n"," ","n","u","m","b","e","r"," ","f","o","r"," ","f","u","t","u","r",
        "e"," ","r","e","f","e","r","e","n","c","e">>
    >>

\* _get_action_items, lines 469-475
ITEMS_FSA_CONTRIBUTION ==
    <<
    \* "Calculate your expected healthcare expenses for the year"
    <<"C","a","l","c","u","l","a","t","e"," ","y","o","u","r"," ","e","x","p","e","c","t","e","d",
        " ","h","e","a","l","t","h","c","a","r","e"," ","e","x","p","e","n","s","e","s"," ","f",
        "o","r"," ","t","h","e"," ","y","e","a","r">>,
    \* "Review the current FSA contribution limits"
    <<"R","e","v","i","e","w"," ","t","h","e"," ","c","u","r","r","e","n","t"," ","F","S","A"," ",
        "c","o","n","t","r","i","b","u","t","i","o","n"," ","l","i","m","i","t","s">>,
    \* "Check for any qualifying life events that allow changes"
    <<"C","h","e","c","k"," ","f","o","r"," ","a","n","y"," ","q","u","a","l","i","f","y","i","n",
        "g"," ","l","i","f","e"," ","e","v","e","n","t","s"," ","t","h","a","t"," ","a","l","l",
        "o","w"," ","c","h","a","n","g","e","s">>,
    \* "Document the reason for your contribution change request"
    <<"D","o","c","u","m","e","n","t"," ","t","h","e"," ","r","e","a","s","o","n"," ","f","o","r",
        " ","y","o","u","r"," ","c","o","n","t","r","i","b","u","t","i","o","n"," ","c","h","a",
        "n","g","e"," ","r","e","q","u","e","s","t">>,
    \* "Submit your change request through the proper channels"
    <<"S","u","b","m","i","t"," ","y","o","u","r"," ","c","h","a","n","g","e"," ","r","e","q","u",
        "e","s","t"," ","t","h","r","o","u","g","h"," ","t","h","e"," ","p","r","o","p","e","r",
        " ","c","h","a","n","n","e","l","s">>
    >>

\* _get_action_items, lines 477-483
ITEMS_FSA ==
    <<
    \* "Review your current FSA balance"
    <<"R","e","v","i","e","w"," ","y","o","u","r"," ","c","u","r","r","e","n","t"," ","F","S","A",
        " ","b","a","l","a","n","c","e">>,
    \* "Check your remaining deadline for using funds"
    <<"C","h","e","c","k"," ","y","o","u","r"," ","r","e","m","a","i","n","i","n","g"," ","d","e",
        "a","d","l","i","n","e"," ","f","o","r"," ","u","s","i","n","g"," ","f","u","n","d","s">>,
    \* "List any upcoming eligible expenses"
    <<"L","i","s","t"," ","a","n","y"," ","u","p","c","o","m","i","n","g"," ","e","l","i","g","i",
        "b","l","e"," ","e","x","p","e","n","s","e","s">>,
    \* "Verify your FSA card is active"
    <<"V","e","r","i","f","y"," ","y","o","u","r"," ","F","S","A"," ","c","a","r","d"," ","i","s",
        " ","a","c","t","i","v","e">>,
    \* "Update your contact information if needed"
    <<"U","p","d","a","t","e"," ","y","o","u","r"," ","c","o","n","t","a","c","t"," ","i","n","f",
        "o","r","m","a","t","i","o","n"," ","i","f"," ","n","e","e","d","e","d">>
    >>

\* _get_action_items, lines 485-491
ITEMS_HSA_CONTRIBUTION ==
    <<
    \* "Verify your HDHP enrollment status"
    <<"V","e","r","i","f","y"," ","y","o","u","r"," ","H","D","H","P"," ","e","n","r","o","l","l",
        "m","e","n","t"," ","s","t","a","t","u","s">>,
    \* "Review current HSA contribution limits"
    <<"R","e","v","i","e","w"," ","c","u","r","r","e","n","t"," ","H","S","A"," ","c","o","n","t",
        "r","i","b","u","t","i","o","n"," ","l","i","m","i","t","s">>,
    \* "Calculate your maximum allowable contribution"
    <<"C","a","l","c","u","l","a","t","e"," ","y","o","u","r"," ","m","a","x","i","m","u","m"," ",
        "a","l","l","o","w","a","b","l","e"," ","c","o","n","t","r","i","b","u","t","i","o","n">>,
    \* "Set up or adjust payroll deductions"
    <<"S","e","t"," ","u","p"," ","o","r"," ","a","d","j","u","s","t"," ","p","a","y","r","o","l",
        "l"," ","d","e","d","u","c","t","i","o","n","s">>,
    \* "Consider catch-up contributions if eligible"
    <<"C","o","n","s","i","d","e","r"," ","c","a","t","c","h","-","u","p"," ","c","o","n","t","r",
        "i","b","u","t","i","o","n","s"," ","i","f"," ","e","l","i","g","i","b","l","e">>
    >>

\* _get_action_items, lines 493-499
ITEMS_HSA ==
    <<
    \* "Check your HSA balance"
    <<"C","h","e","c","k"," ","y","o","u","r"," ","H","S","A"," ","b","a","l","a","n","c","e">>,
    \* "Review investment options if available"
    <<"R","e","v","i","e","w"," ","i","n","v","e","s","t","m","e","n","t"," ","o","p","t","i","o",
        "n","s"," ","i","f"," ","a","v","a","i","l","a","b","l","e">>,
    \* "List upcoming qualified medical expenses"
    <<"L","i","s","t"," ","u","p","c","o","m","i","n","g"," ","q","u","a","l","i","f","i","e","d",
        " ","m","e","d","i","c","a","l"," ","e","x","p","e","n","s","e","s">>,
    \* "Verify your HSA debit card is active"
    <<"V","e","r","i","f","y"," ","y","o","u","r"," ","H","S","A"," ","d","e","b","i","t"," ","c",
        "a","r","d"," ","i","s"," ","a","c","t","i","v","e">>,
    \* "Update your beneficiary information"
    <<"U","p","d","a","t","e"," ","y","o","u","r"," ","b","e","n","e","f","i","c","i","a","r","y",
        " ","i","n","f","o","r","m","a","t","i","o","n">>
    >>

\* _get_action_items, lines 501-507
ITEMS_COBRA ==
    <<
    \* "Review COBRA election notice"
    <<"R","e","v","i","e","w"," ","C","O","B","R","A"," ","e","l","e","c","t","i","o","n"," ","n",
        "o","t","i","c","e">>,
    \* "Compare COBRA premium costs"
    <<"C","o","m","p","a","r","e"," ","C","O","B","R","A"," ","p","r","e","m","i","u","m"," ","c",
        "o","s","t","s">>,
    \* "Check election deadline dates"
    <<"C","h","e","c","k"," ","e","l","e","c","t","i","o","n"," ","d","e","a","d","l","i","n","e",
        " ","d","a","t","e","s">>,
    \* "Gather required documentation"
    <<"G","a","t","h","e","r"," ","r","e","q","u","i","r","e","d"," ","d","o","c","u","m","e","n",
        "t","a","t","i","o","n">>,
    \* "Consider alternative coverage options"
    <<"C","o","n","s","i","d","e","r"," ","a","l","t","e","r","n","a","t","i","v","e"," ","c","o",
        "v","e","r","a","g","e"," ","o","p","t","i","o","n","s">>
    >>

\* _get_action_items, lines 509-514
ITEMS_GENERAL ==
    <<
    \* "Review your benefits documentation"
    <<"R","e","v","i","e","w"," ","y","o","u","r"," ","b","e","n","e","f","i","t","s"," ","d","o",
        "c","u","m","e","n","t","a","t","i","o","n">>,
    \* "Contact HR for clarification if needed"
    <<"C","o","n","t","a","c","t"," ","H","R"," ","f","o","r"," ","c","l","a","r","i","f","i","c",
        "a","t","i","o","n"," ","i","f"," ","n","e","e","d","e","d">>,
    \* "Update your personal information"
    <<"U","p","d","a","t","e"," ","y","o","u","r"," ","p","e","r","s","o","n","a","l"," ","i","n",
        "f","o","r","m","a","t","i","o","n">>,
    \* "Schedule a follow-up if necessary"
    <<"S","c","h","e","d","u","l","e"," ","a"," ","f","o","l","l","o","w","-","u","p"," ","i","f",
        " ","n","e","c","e","s","s","a","r","y">>
    >>

\* query = query.lower(); then the if/elif chain, first match wins
GetActionItems(q) ==
    LET lq == Lower(q)
    IN  IF Contains(lq, KW_fsa) /\ Contains(lq, KW_reimbursement) THEN ITEMS_FSA_REIMBURSEMENT
        ELSE IF Contains(lq, KW_fsa) /\ Contains(lq, KW_contribution) THEN ITEMS_FSA_CONTRIBUTION
        ELSE IF Contains(lq, KW_fsa) THEN ITEMS_FSA
        ELSE IF Contains(lq, KW_hsa) /\ Contains(lq, KW_contribution) THEN ITEMS_HSA_CONTRIBUTION
        ELSE IF Contains(lq, KW_hsa) THEN ITEMS_HSA
        ELSE IF Contains(lq, KW_cobra) THEN ITEMS_COBRA
        ELSE ITEMS_GENERAL

-----------------------------------------------------------------------------
(* ManagerAgent._format_response, _extract_recommendations,                *)
(* _extract_action_items, _get_next_steps                                  *)

\* "recommendations:"
LBL_RECOMMENDATIONS == <<"r","e","c","o","m","m","e","n","d","a","t","i","o","n","s",":">>
\* "action items:"
LBL_ACTION_ITEMS == <<"a","c","t","i","o","n"," ","i","t","e","m","s",":">>
\* "next steps:"
LBL_NEXT_STEPS == <<"n","e","x","t"," ","s","t","e","p","s",":">>
\* "Thought:"
RE_THOUGHT == <<"T","h","o","u","g","h","t",":">>
\* "Reasoning:"
RE_REASONING == <<"R","e","a","s","o","n","i","n","g",":">>
\* "Final Answer:"
RE_FINAL_ANSWER == <<"F","i","n","a","l"," ","A","n","s","w","e","r",":">>
\* "No thought provided"
NO_THOUGHT == <<"N","o"," ","t","h","o","u","g","h","t"," ","p","r","o","v","i","d","e","d">>
\* "No reasoning provided"
NO_REASONING == <<"N","o"," ","r","e","a","s","o","n","i","n","g"," ","p","r","o","v","i","d","e",
    "d">>

\* `$` without re.MULTILINE matches at the end of the string and just before
\* a newline that ends it; a lazy `(.*?)$` under re.DOTALL therefore takes
\* the rest of the string without one final newline.
LazyToDollar(rest) ==
    IF rest # <<>> /\ rest[Len(rest)] = "\n" THEN SubSeq(rest, 1, Len(rest) - 1) ELSE rest

\* the text that follows the first occurrence of label (label must occur)
After(s, label) == SubSeq(s, Find(s, label) + Len(label), Len(s))

\* re.search(label + r"(.*?)(?=" + stop + r"|$)", s, re.DOTALL): group(1)
\* stripped, or "" when there is no match
LabelledPart(s, label, stop) ==
    IF ~Contains(s, label) THEN <<>>
    ELSE LET rest == After(s, label)
             j    == Find(rest, stop)
         IN  Strip(IF j # 0 THEN SubSeq(rest, 1, j - 1) ELSE LazyToDollar(rest))

\* Mutant: without "Final Answer:" the message is the text after the
\* "Thought:"/"Reasoning:" label chain instead of the whole text.
ExtractAnswerAfterChain(s) ==
    IF Contains(s, RE_FINAL_ANSWER) THEN Strip(LazyToDollar(After(s, RE_FINAL_ANSWER)))
    ELSE IF Contains(s, RE_REASONING) THEN Strip(After(s, RE_REASONING))
    ELSE IF Contains(s, RE_THOUGHT) THEN Strip(After(s, RE_THOUGHT))
    ELSE Strip(s)

\* answer_match = re.search(r"Final Answer:(.*?)$", analysis_result, re.DOTALL)
\* answer = answer_match.group(1).strip() if answer_match else analysis_result.strip()
ExtractAnswer(s) ==
    IF Contains(s, RE_FINAL_ANSWER) THEN Strip(LazyToDollar(After(s, RE_FINAL_ANSWER)))
    ELSE Strip(s)

\* The loop over the lines of a section: a stripped line that starts with
\* "-" or "*" contributes line[1:].strip() (only if non-empty, unless
\* keepEmpty); any other line that contains one of the stop markers ends the
\* loop (break); every other line is skipped.
RECURSIVE CollectBullets(_, _, _, _)
CollectBullets(lines, i, stops, keepEmpty) ==
    IF i > Len(lines) THEN <<>>
    ELSE LET line == Strip(lines[i])
         IN  IF line # <<>> /\ (line[1] = "-" \/ line[1] = "*")
             THEN LET clean == Strip(Tail(line))
                  IN  (IF clean # <<>> \/ keepEmpty THEN <<clean>> ELSE <<>>)
                      \o CollectBullets(lines, i + 1, stops, keepEmpty)
             ELSE IF \E m \in stops : Contains(Lower(line), m) THEN <<>>
             ELSE CollectBullets(lines, i + 1, stops, keepEmpty)

\* section = text.lower().split(label)[1].split("\n")
SectionLines(text, label) == Split(Split(Lower(text), label)[2], <<"\n">>)

\* the bullets found under label, [] when text.lower() has no such label
BulletsUnder(text, label, stops, keepEmpty) ==
    IF Contains(Lower(text), label)
    THEN CollectBullets(SectionLines(text, label), 1, stops, keepEmpty)
    ELSE <<>>

\* _extract_recommendations, lines 737-742
REC_DEFAULT_HSA_FSA ==
    <<
    \* "Compare HSA and FSA features based on your healthcare needs"
    <<"C","o","m","p","a","r","e"," ","H","S","A"," ","a","n","d"," ","F","S","A"," ","f","e","a",
        "t","u","r","e","s"," ","b","a","s","e","d"," ","o","n"," ","y","o","u","r"," ","h","e",
        "a","l","t","h","c","a","r","e"," ","n","e","e","d","s">>,
    \* "Review contribution limits for both accounts"
    <<"R","e","v","i","e","w"," ","c","o","n","t","r","i","b","u","t","i","o","n"," ","l","i","m",
        "i","t","s"," ","f","o","r"," ","b","o","t","h"," ","a","c","c","o","u","n","t","s">>,
    \* "Consider your eligibility status for each account"
    <<"C","o","n","s","i","d","e","r"," ","y","o","u","r"," ","e","l","i","g","i","b","i","l","i",
        "t","y"," ","s","t","a","t","u","s"," ","f","o","r"," ","e","a","c","h"," ","a","c","c",
        "o","u","n","t">>,
    \* "Evaluate your expected healthcare expenses"
    <<"E","v","a","l","u","a","t","e"," ","y","o","u","r"," ","e","x","p","e","c","t","e","d"," ",
        "h","e","a","l","t","h","c","a","r","e"," ","e","x","p","e","n","s","e","s">>
    >>

\* _extract_recommendations, lines 745-750
REC_DEFAULT_HSA ==
    <<
    \* "Verify your HDHP enrollment status"
    <<"V","e","r","i","f","y"," ","y","o","u","r"," ","H","D","H","P"," ","e","n","r","o","l","l",
        "m","e","n","t"," ","s","t","a","t","u","s">>,
    \* "Review HSA contribution strategies"
    <<"R","e","v","i","e","w"," ","H","S","A"," ","c","o","n","t","r","i","b","u","t","i","o","n",
        " ","s","t","r","a","t","e","g","i","e","s">>,
    \* "Consider investment options if available"
    <<"C","o","n","s","i","d","e","r"," ","i","n","v","e","s","t","m","e","n","t"," ","o","p","t",
        "i","o","n","s"," ","i","f"," ","a","v","a","i","l","a","b","l","e">>,
    \* "Track qualified medical expenses"
    <<"T","r","a","c","k"," ","q","u","a","l","i","f","i","e","d"," ","m","e","d","i","c","a","l",
        " ","e","x","p","e","n","s","e","s">>
    >>

\* _extract_recommendations, lines 753-758
REC_DEFAULT_FSA ==
    <<
    \* "Plan your FSA contributions carefully"
    <<"P","l","a","n"," ","y","o","u","r"," ","F","S","A"," ","c","o","n","t","r","i","b","u","t",
        "i","o","n","s"," ","c","a","r","e","f","u","l","l","y">>,
    \* "Review FSA-eligible expenses"
    <<"R","e","v","i","e","w"," ","F","S","A","-","e","l","i","g","i","b","l","e"," ","e","x","p",
        "e","n","s","e","s">>,
    \* "Track FSA deadlines and grace periods"
    <<"T","r","a","c","k"," ","F","S","A"," ","d","e","a","d","l","i","n","e","s"," ","a","n","d",
        " ","g","r","a","c","e"," ","p","e","r","i","o","d","s">>,
    \* "Keep all receipts for reimbursement"
    <<"K","e","e","p"," ","a","l","l"," ","r","e","c","e","i","p","t","s"," ","f","o","r"," ","r",
        "e","i","m","b","u","r","s","e","m","e","n","t">>
    >>

\* _extract_recommendations, lines 761-766
REC_DEFAULT_GENERAL ==
    <<
    \* "Schedule a benefits consultation for personalized guidance"
    <<"S","c","h","e","d","u","l","e"," ","a"," ","b","e","n","e","f","i","t","s"," ","c","o","n",
        "s","u","l","t","a","t","i","o","n"," ","f","o","r"," ","p","e","r","s","o","n","a","l",
        "i","z","e","d"," ","g","u","i","d","a","n","c","e">>,
    \* "Review your current benefits elections"
    <<"R","e","v","i","e","w"," ","y","o","u","r"," ","c","u","r","r","e","n","t"," ","b","e","n",
        "e","f","i","t","s"," ","e","l","e","c","t","i","o","n","s">>,
    \* "Consider any upcoming life changes"
    <<"C","o","n","s","i","d","e","r"," ","a","n","y"," ","u","p","c","o","m","i","n","g"," ","l",
        "i","f","e"," ","c","h","a","n","g","e","s">>,
    \* "Keep your benefits information up to date"
    <<"K","e","e","p"," ","y","o","u","r"," ","b","e","n","e","f","i","t","s"," ","i","n","f","o",
        "r","m","a","t","i","o","n"," ","u","p"," ","t","o"," ","d","a","t","e">>
    >>

\* Mutant: the keyword tests that select the default list are case-sensitive.
DefaultRecommendationsCaseSensitive(text) ==
    IF Contains(text, KW_hsa) /\ Contains(text, KW_fsa) THEN REC_DEFAULT_HSA_FSA
    ELSE IF Contains(text, KW_hsa) THEN REC_DEFAULT_HSA
    ELSE IF Contains(text, KW_fsa) THEN REC_DEFAULT_FSA
    ELSE REC_DEFAULT_GENERAL

\* "Default recommendations if none found": selected by the keywords of the text
DefaultRecommendations(text) ==
    LET lt == Lower(text)
    IN  IF Contains(lt, KW_hsa) /\ Contains(lt, KW_fsa) THEN REC_DEFAULT_HSA_FSA
        ELSE IF Contains(lt, KW_hsa) THEN REC_DEFAULT_HSA
        ELSE IF Contains(lt, KW_fsa) THEN REC_DEFAULT_FSA
        ELSE REC_DEFAULT_GENERAL

\* Mutant: the defaults are substituted only when the label is missing, not
\* when a labelled section yields no bullet.
ExtractRecommendationsNoDefaultUnderLabel(text) ==
    IF Contains(Lower(text), LBL_RECOMMENDATIONS)
    THEN BulletsUnder(text, LBL_RECOMMENDATIONS, {LBL_ACTION_ITEMS, LBL_NEXT_STEPS}, FALSE)
    ELSE DefaultRecommendations(text)

\* _extract_recommendations(text)
ExtractRecommendations(text) ==
    LET found == BulletsUnder(text, LBL_RECOMMENDATIONS, {LBL_ACTION_ITEMS, LBL_NEXT_STEPS}, FALSE)
    IN  IF found # <<>> THEN found ELSE DefaultRecommendations(text)

\* _extract_action_items, lines 812-817
ACT_DEFAULT_HSA_FSA ==
    <<
    \* "Review current benefits enrollment status"
    <<"R","e","v","i","e","w"," ","c","u","r","r","e","n","t"," ","b","e","n","e","f","i","t","s",
        " ","e","n","r","o","l","l","m","e","n","t"," ","s","t","a","t","u","s">>,
    \* "Calculate potential contributions for each account"
    <<"C","a","l","c","u","l","a","t","e"," ","p","o","t","e","n","t","i","a","l"," ","c","o","n",
        "t","r","i","b","u","t","i","o","n","s"," ","f","o","r"," ","e","a","c","h"," ","a","c",
        "c","o","u","n","t">>,
    \* "Document expected medical expenses"
    <<"D","o","c","u","m","e","n","t"," ","e","x","p","e","c","t","e","d"," ","m","e","d","i","c",
        "a","l"," ","e","x","p","e","n","s","e","s">>,
    \* "Schedule benefits consultation if needed"
    <<"S","c","h","e","d","u","l","e"," ","b","e","n","e","f","i","t","s"," ","c","o","n","s","u",
        "l","t","a","t","i","o","n"," ","i","f"," ","n","e","e","d","e","d">>
    >>

\* _extract_action_items, lines 819-824
ACT_DEFAULT_HSA ==
    <<
    \* "Verify HDHP enrollment"
    <<"V","e","r","i","f","y"," ","H","D","H","P"," ","e","n","r","o","l","l","m","e","n","t">>,
    \* "Set up HSA contributions"
    <<"S","e","t"," ","u","p"," ","H","S","A"," ","c","o","n","t","r","i","b","u","t","i","o","n",
        "s">>,
    \* "Review investment options"
    <<"R","e","v","i","e","w"," ","i","n","v","e","s","t","m","e","n","t"," ","o","p","t","i","o",
        "n","s">>,
    \* "Organize medical expense records"
    <<"O","r","g","a","n","i","z","e"," ","m","e","d","i","c","a","l"," ","e","x","p","e","n","s",
        "e"," ","r","e","c","o","r","d","s">>
    >>

\* _extract_action_items, lines 826-831
ACT_DEFAULT_FSA ==
    <<
    \* "Calculate FSA contribution needs"
    <<"C","a","l","c","u","l","a","t","e"," ","F","S","A"," ","c","o","n","t","r","i","b","u","t",
        "i","o","n"," ","n","e","e","d","s">>,
    \* "Submit FSA enrollment form"
    <<"S","u","b","m","i","t"," ","F","S","A"," ","e","n","r","o","l","l","m","e","n","t"," ","f",
        "o","r","m">>,
    \* "Set up FSA payment card"
    <<"S","e","t"," ","u","p"," ","F","S","A"," ","p","a","y","m","e","n","t"," ","c","a","r","d">>,
    \* "Create FSA expense tracking system"
    <<"C","r","e","a","t","e"," ","F","S","A"," ","e","x","p","e","n","s","e"," ","t","r","a","c",
        "k","i","n","g"," ","s","y","s","t","e","m">>
    >>

\* _extract_action_items, lines 833-838
ACT_DEFAULT_GENERAL ==
    <<
    \* "Review benefits documentation"
    <<"R","e","v","i","e","w"," ","b","e","n","e","f","i","t","s"," ","d","o","c","u","m","e","n",
        "t","a","t","i","o","n">>,
    \* "Contact HR for clarification if needed"
    <<"C","o","n","t","a","c","t"," ","H","R"," ","f","o","r"," ","c","l","a","r","i","f","i","c",
        "a","t","i","o","n"," ","i","f"," ","n","e","e","d","e","d">>,
    \* "Update personal information"
    <<"U","p","d","a","t","e"," ","p","e","r","s","o","n","a","l"," ","i","n","f","o","r","m","a",
        "t","i","o","n">>,
    \* "Schedule follow-up if necessary"
    <<"S","c","h","e","d","u","l","e"," ","f","o","l","l","o","w","-","u","p"," ","i","f"," ","n",
        "e","c","e","s","s","a","r","y">>
    >>

\* "Default action items if none found"
DefaultActionItems(text) ==
    LET lt == Lower(text)
    IN  IF Contains(lt, KW_hsa) /\ Contains(lt, KW_fsa) THEN ACT_DEFAULT_HSA_FSA
        ELSE IF Contains(lt, KW_hsa) THEN ACT_DEFAULT_HSA
        ELSE IF Contains(lt, KW_fsa) THEN ACT_DEFAULT_FSA
        ELSE ACT_DEFAULT_GENERAL

\* _extract_action_items(text)
ExtractActionItems(text) ==
    LET found == BulletsUnder(text, LBL_ACTION_ITEMS, {LBL_NEXT_STEPS}, FALSE)
    IN  IF found # <<>> THEN found ELSE DefaultActionItems(text)

\* _get_next_steps, lines 545-550
NEXT_DEFAULT_HSA_FSA ==
    <<
    \* "Review your HSA and FSA eligibility status"
    <<"R","e","v","i","e","w"," ","y","o","u","r"," ","H","S","A"," ","a","n","d"," ","F","S","A",
        " ","e","l","i","g","i","b","i","l","i","t","y"," ","s","t","a","t","u","s">>,
    \* "Compare contribution limits and rollover rules"
    <<"C","o","m","p","a","r","e"," ","c","o","n","t","r","i","b","u","t","i","o","n"," ","l","i",
        "m","i","t","s"," ","a","n","d"," ","r","o","l","l","o","v","e","r"," ","r","u","l","e",
        "s">>,
    \* "Consider your healthcare spending patterns"
    <<"C","o","n","s","i","d","e","r"," ","y","o","u","r"," ","h","e","a","l","t","h","c","a","r",
        "e"," ","s","p","e","n","d","i","n","g"," ","p","a","t","t","e","r","n","s">>,
    \* "Consult with HR about enrollment options"
    <<"C","o","n","s","u","l","t"," ","w","i","t","h"," ","H","R"," ","a","b","o","u","t"," ","e",
        "n","r","o","l","l","m","e","n","t"," ","o","p","t","i","o","n","s">>
    >>

\* _get_next_steps, lines 552-557
NEXT_DEFAULT_HSA ==
    <<
    \* "Check your HDHP enrollment status"
    <<"C","h","e","c","k"," ","y","o","u","r"," ","H","D","H","P"," ","e","n","r","o","l","l","m",
        "e","n","t"," ","s","t","a","t","u","s">>,
    \* "Review HSA contribution limits"
    <<"R","e","v","i","e","w"," ","H","S","A"," ","c","o","n","t","r","i","b","u","t","i","o","n",
        " ","l","i","m","i","t","s">>,
    \* "Consider catch-up contributions if eligible"
    <<"C","o","n","s","i","d","e","r"," ","c","a","t","c","h","-","u","p"," ","c","o","n","t","r",
        "i","b","u","t","i","o","n","s"," ","i","f"," ","e","l","i","g","i","b","l","e">>,
    \* "Set up automatic HSA contributions"
    <<"S","e","t"," ","u","p"," ","a","u","t","o","m","a","t","i","c"," ","H","S","A"," ","c","o",
        "n","t","r","i","b","u","t","i","o","n","s">>
    >>

\* _get_next_steps, lines 559-564
NEXT_DEFAULT_FSA ==
    <<
    \* "Review FSA eligible expenses"
    <<"R","e","v","i","e","w"," ","F","S","A"," ","e","l","i","g","i","b","l","e"," ","e","x","p",
        "e","n","s","e","s">>,
    \* "Plan your annual FSA contribution"
    <<"P","l","a","n"," ","y","o","u","r"," ","a","n","n","u","a","l"," ","F","S","A"," ","c","o",
        "n","t","r","i","b","u","t","i","o","n">>,
    \* "Set up FSA reimbursement process"
    <<"S","e","t"," ","u","p"," ","F","S","A"," ","r","e","i","m","b","u","r","s","e","m","e","n",
        "t"," ","p","r","o","c","e","s","s">>,
    \* "Track FSA spending deadlines"
    <<"T","r","a","c","k"," ","F","S","A"," ","s","p","e","n","d","i","n","g"," ","d","e","a","d",
        "l","i","n","e","s">>
    >>

\* _get_next_steps, lines 566-571
NEXT_DEFAULT_COBRA ==
    <<
    \* "Review COBRA eligibility requirements"
    <<"R","e","v","i","e","w"," ","C","O","B","R","A"," ","e","l","i","g","i","b","i","l","i","t",
        "y"," ","r","e","q","u","i","r","e","m","e","n","t","s">>,
    \* "Compare COBRA costs with alternatives"
    <<"C","o","m","p","a","r","e"," ","C","O","B","R","A"," ","c","o","s","t","s"," ","w","i","t",
        "h"," ","a","l","t","e","r","n","a","t","i","v","e","s">>,
    \* "Check election deadlines"
    <<"C","h","e","c","k"," ","e","l","e","c","t","i","o","n"," ","d","e","a","d","l","i","n","e",
        "s">>,
    \* "Gather required documentation"
    <<"G","a","t","h","e","r"," ","r","e","q","u","i","r","e","d"," ","d","o","c","u","m","e","n",
        "t","a","t","i","o","n">>
    >>

\* _get_next_steps, lines 573-578
NEXT_DEFAULT_GENERAL ==
    <<
    \* "Review your benefits documentation"
    <<"R","e","v","i","e","w"," ","y","o","u","r"," ","b","e","n","e","f","i","t","s"," ","d","o",
        "c","u","m","e","n","t","a","t","i","o","n">>,
    \* "Schedule a benefits consultation"
    <<"S","c","h","e","d","u","l","e"," ","a"," ","b","e","n","e","f","i","t","s"," ","c","o","n",
        "s","u","l","t","a","t","i","o","n">>,
    \* "Update your benefits preferences"
    <<"U","p","d","a","t","e"," ","y","o","u","r"," ","b","e","n","e","f","i","t","s"," ","p","r",
        "e","f","e","r","e","n","c","e","s">>,
    \* "Contact HR for additional guidance"
    <<"C","o","n","t","a","c","t"," ","H","R"," ","f","o","r"," ","a","d","d","i","t","i","o","n",
        "a","l"," ","g","u","i","d","a","n","c","e">>
    >>

\* "Default next steps if none found"
DefaultNextSteps(text) ==
    LET lt == Lower(text)
    IN  IF Contains(lt, KW_hsa) /\ Contains(lt, KW_fsa) THEN NEXT_DEFAULT_HSA_FSA
        ELSE IF Contains(lt, KW_hsa) THEN NEXT_DEFAULT_HSA
        ELSE IF Contains(lt, KW_fsa) THEN NEXT_DEFAULT_FSA
        ELSE IF Contains(lt, KW_cobra) THEN NEXT_DEFAULT_COBRA
        ELSE NEXT_DEFAULT_GENERAL

\* _get_next_steps(text): a bullet is appended even when nothing follows its marker
GetNextSteps(text) ==
    LET found == BulletsUnder(text, LBL_NEXT_STEPS, {LBL_RECOMMENDATIONS, LBL_ACTION_ITEMS}, TRUE)
    IN  IF found # <<>> THEN found ELSE DefaultNextSteps(text)

\* the action_items argument: None, or a list
NoneArg == [none |-> TRUE, items |-> <<>>]
ListArg(items) == [none |-> FALSE, items |-> items]

\* the entry _format_response appends to debug_info "if thought or reasoning"
FormatterDebugEntry(thought, reasoning) ==
    [agent |-> "Response Formatter",
     thought |-> IF thought # <<>> THEN thought ELSE NO_THOUGHT,
     reasoning |-> IF reasoning # <<>> THEN reasoning ELSE NO_REASONING]

\* Mutant: the recommendations accumulate in a list shared by the calls.
FormatResponseShared(analysis_result, debug_info, action_items) ==
    LET thought   == LabelledPart(analysis_result, RE_THOUGHT, RE_REASONING)
        reasoning == LabelledPart(analysis_result, RE_REASONING, RE_FINAL_ANSWER)
        answer    == ExtractAnswer(analysis_result)
    IN  [message |-> answer,
         recommendations |-> (IF fmt_log # <<>>
                              THEN fmt_log[Len(fmt_log)].response.recommendations
                              ELSE <<>>) \o ExtractRecommendations(answer),
         action_items |-> IF action_items.none THEN ExtractActionItems(answer)
                          ELSE action_items.items,
         next_steps |-> GetNextSteps(answer),
         debug_info |-> debug_info \o
                        (IF thought # <<>> \/ reasoning # <<>>
                         THEN <<FormatterDebugEntry(thought, reasoning)>> ELSE <<>>)]

\* _format_response(analysis_result, debug_info, action_items). All values
\* are str or lists of str, so [str(x) for x in ...] and the
\* json.loads(json.dumps(response)) round trip return them unchanged.
FormatResponse(analysis_result, debug_info, action_items) ==
    LET thought   == LabelledPart(analysis_result, RE_THOUGHT, RE_REASONING)
        reasoning == LabelledPart(analysis_result, RE_REASONING, RE_FINAL_ANSWER)
        answer    == ExtractAnswer(analysis_result)
    IN  [message |-> answer,
         recommendations |-> ExtractRecommendations(answer),
         action_items |-> IF action_items.none THEN ExtractActionItems(answer)
                          ELSE action_items.items,
         next_steps |-> GetNextSteps(answer),
         debug_info |-> debug_info \o
                        (IF thought # <<>> \/ reasoning # <<>>
                         THEN <<FormatterDebugEntry(thought, reasoning)>> ELSE <<>>)]

-----------------------------------------------------------------------------
(* Inputs of the formatter: raw texts of up to MaxRawLines lines, and the  *)
(* two-section texts "Recommendations:" bullets "Action Items:" bullets.   *)
(* The call is either direct (debug_info and action_items left None) or    *)
(* the one of analyze_query, which passes its debug entries and            *)
(* _get_action_items(query).                                               *)

MaxRawLines == 3

RawLines ==
    <<
    \* "Recommendations:"
    <<"R","e","c","o","m","m","e","n","d","a","t","i","o","n","s",":">>,
    \* "Action Items:"
    <<"A","c","t","i","o","n"," ","I","t","e","m","s",":">>,
    \* "Next Steps:"
    <<"N","e","x","t"," ","S","t","e","p","s",":">>,
    \* "- Do X"
    <<"-"," ","D","o"," ","X">>,
    \* "* Use your HSA"
    <<"*"," ","U","s","e"," ","y","o","u","r"," ","H","S","A">>,
    \* "-"
    <<"-">>,
    \* "Final Answer: Your FSA"
    <<"F","i","n","a","l"," ","A","n","s","w","e","r",":"," ","Y","o","u","r"," ","F","S","A">>,
    \* "Thought: hm"
    <<"T","h","o","u","g","h","t",":"," ","h","m">>,
    \* "Reasoning: so"
    <<"R","e","a","s","o","n","i","n","g",":"," ","s","o">>,
    \* "no structured sections here"
    <<"n","o"," ","s","t","r","u","c","t","u","r","e","d"," ","s","e","c","t","i","o","n","s"," ",
        "h","e","r","e">>
    >>

RawOf(ls) == Join([i \in 1..Len(ls) |-> RawLines[ls[i]]], <<"\n">>)

FreeTexts == {RawOf(ls) : ls \in UNION {[1..n -> 1..Len(RawLines)] : n \in 0..MaxRawLines}}

BulletTexts ==
    <<
    \* "Do X"
    <<"D","o"," ","X">>,
    \* "Do Y"
    <<"D","o"," ","Y">>,
    \* "Do Z"
    <<"D","o"," ","Z">>
    >>

BulletMarkers == { <<"-"," ">>, <<"*"," ">> }

BulletLists(maxLen) == UNION {[1..n -> 1..Len(BulletTexts)] : n \in 1..maxLen}

\* label, then one bullet line per text
SectionText(label, marker, ts) ==
    Join(<<label>> \o [i \in 1..Len(ts) |-> marker \o BulletTexts[ts[i]]], <<"\n">>)

TwoSectionText(marker, recs, acts) ==
    SectionText(RawLines[1], marker, recs) \o <<"\n">> \o SectionText(RawLines[2], marker, acts)

TwoSectionTexts ==
    {TwoSectionText(mk, recs, acts) : mk \in BulletMarkers, recs \in BulletLists(2), acts \in BulletLists(1)}

FormatQueries ==
    <<
    \* "fsa plan"
    <<"f","s","a"," ","p","l","a","n">>,
    \* "What is COBRA"
    <<"W","h","a","t"," ","i","s"," ","C","O","B","R","A">>
    >>

\* the debug entry analyze_query has collected before it formats (step 4)
PolicyDebugEntry == [agent |-> "Policy Agent", thought |-> <<>>, reasoning |-> <<>>]

NoResponse ==
    [message |-> <<>>, recommendations |-> <<>>, action_items |-> <<>>,
     next_steps |-> <<>>, debug_info |-> <<>>]

InitFormat ==
    /\ raw \in FreeTexts \cup TwoSectionTexts
    /\ \E i \in 1..Len(FormatQueries) : query = FormatQueries[i]
    /\ query_type = DetermineQueryType(query)
    /\ cls_pc = "done"
    /\ \/ arg_action_items = NoneArg /\ arg_debug_info = <<>>
       \/ arg_action_items = ListArg(GetActionItems(query)) /\ arg_debug_info = <<PolicyDebugEntry>>
    /\ response = NoResponse
    /\ fmt_pc = "call"
    /\ IdleWellness
    /\ IdleExt("core")

\* response = self._format_response(raw, debug_info, action_items)
Format ==
    /\ fmt_pc = "call"
    /\ response' = FormatResponse(raw, arg_debug_info, arg_action_items)
    /\ fmt_pc' = "done"
    /\ UNCHANGED <<raw, arg_action_items, arg_debug_info, clsVars, welVars, extVars>>

NextFormat == Format

SpecFormat == InitFormat /\ [][NextFormat]_vars

-----------------------------------------------------------------------------
(* PolicyAgent: the fixed topic -> statements table and                    *)
(* get_relevant_policies. The statements are only ever copied, never       *)
(* inspected, so they are kept as TLA+ strings.                            *)

\* self.policies of PolicyAgent.__init__: the statements of each topic, in order
POLICY_HSA_BENEFITS ==
    << "HSA funds never expire and remain with the employee even after leaving the company",
       "2024 HSA contribution limits: $4,150 for individual coverage, $8,300 for family coverage",
       "Additional $1,000 catch-up contribution allowed for age 55+",
       "Must be enrolled in a qualifying high-deductible health plan (HDHP)",
       "Triple tax advantage: tax-deductible contributions, tax-free growth, tax-free withdrawals for qualified expenses" >>

POLICY_FSA_BENEFITS ==
    << "FSA funds must be used within the plan year with limited exceptions",
       "2024 FSA contribution limit: $3,200",
       "Use-it-or-lose-it rule applies with possible grace period or $610 rollover",
       "No HDHP requirement, but cannot be combined with HSA unless limited to dental/vision",
       "Immediate access to full annual election amount" >>

POLICY_COBRA_BENEFITS ==
    << "COBRA continuation coverage available for up to 18 months after qualifying event",
       "Must be offered to qualified beneficiaries who lose coverage due to qualifying events",
       "Premium cannot exceed 102% of the full cost of coverage",
       "60-day election period from loss of coverage or notification, whichever is later",
       "Coverage is retroactive if elected, but premiums must be paid retroactively" >>

POLICY_FSA_REIMBURSEMENT_PROCESS ==
    << "Submit claims with receipts showing date, service, provider, and amount",
       "Claims must be for expenses incurred during the plan year",
       "Many FSA cards provide automatic payment at qualified merchants",
       "Keep all receipts for tax purposes and verification if requested" >>

POLICY_HSA_CONTRIBUTION_LIMITS ==
    << "2024 individual coverage limit: $4,150",
       "2024 family coverage limit: $8,300",
       "Age 55+ catch-up contribution: additional $1,000 allowed",
       "Employer contributions count toward annual limits",
       "Pro-rated limits apply if starting mid-year" >>

POLICY_FSA_CONTRIBUTION_CHANGES ==
    << "Elections generally locked for plan year unless qualifying life event occurs",
       "Qualifying events include: marriage, divorce, birth/adoption, employment change",
       "Changes must be consistent with the qualifying event",
       "30-day window to request changes after qualifying event" >>

POLICY_GENERAL_BENEFITS ==
    << "Benefits elections typically made during annual open enrollment",
       "Mid-year changes allowed only with qualifying life events",
       "Review benefits guide for detailed coverage information",
       "Contact HR for specific questions about your benefits package" >>

POLICIES ==
    ("HSA Benefits" :> POLICY_HSA_BENEFITS)
    @@ ("FSA Benefits" :> POLICY_FSA_BENEFITS)
    @@ ("COBRA Benefits" :> POLICY_COBRA_BENEFITS)
    @@ ("FSA Reimbursement Process" :> POLICY_FSA_REIMBURSEMENT_PROCESS)
    @@ ("HSA Contribution Limits" :> POLICY_HSA_CONTRIBUTION_LIMITS)
    @@ ("FSA Contribution Changes" :> POLICY_FSA_CONTRIBUTION_CHANGES)
    @@ ("General Benefits" :> POLICY_GENERAL_BENEFITS)

\* Mutant: no default entry for an unknown topic.
GetRelevantPoliciesNoFallback(table, qt) ==
    IF qt \in DOMAIN table THEN table[qt] ELSE <<>>

\* policies = self.policies.get(query_type, self.policies["General Benefits"])
\* return [str(p) for p in policies]      (a new list of the same strings)
GetRelevantPolicies(table, qt) ==
    IF qt \in DOMAIN table THEN table[qt] ELSE table["General Benefits"]

-----------------------------------------------------------------------------
(* Calls of the policy agent: by the facade, with the label the classifier *)
(* returned for the query (steps 2 and 3 of analyze_query), or directly    *)
(* with any topic string. One agent serves up to MaxEarlierCalls + 1 calls *)
(* in a row; a later facade call repeats the query in another letter case. *)

MaxEarlierCalls == 1

\* topics of direct calls: the seven keys, and strings that are no key
\* (the spec's short labels, another letter case, the empty string)
LookupTopics ==
    Topics \cup {"HSA", "FSA", "FSA-Reimbursement", "General", "hsa benefits", ""}

UpperMap == [c \in {Lowers[i] : i \in 1..26} |-> Uppers[CHOOSE i \in 1..26 : Lowers[i] = c]]

\* str.upper()
Upper(s) == [i \in 1..Len(s) |-> IF s[i] \in DOMAIN UpperMap THEN UpperMap[s[i]] ELSE s[i]]

CaseVariants(q) == {q, Lower(q), Upper(q)}

InitPolicy ==
    /\ policies = POLICIES
    /\ pol_result = <<>>
    /\ pol_default = FALSE
    /\ earlier = <<>>
    /\ \/ /\ \E ws \in QueryWordSeqs : query = QueryOf(ws)
          /\ query_type = ""
          /\ cls_pc = "call"
          /\ pol_arg = ""
          /\ pol_pc = "wait"
       \/ /\ IdleClassifier
          /\ pol_arg \in LookupTopics
          /\ pol_pc = "call"
    /\ IdleWellness
    /\ IdleFormatter
    /\ IdleExt("policy")

\* policies = self.policy_agent.get_relevant_policies(query_type)
LookupClassified ==
    /\ cls_pc = "done"
    /\ pol_pc = "wait"
    /\ pol_arg' = query_type
    /\ pol_result' = GetRelevantPolicies(policies, query_type)
    /\ pol_default' = (query_type \notin DOMAIN policies)
    /\ pol_pc' = "done"
    /\ UNCHANGED <<policies, earlier, clsVars, welVars, fmtVars, butPolicy>>

\* get_relevant_policies(pol_arg), called directly
LookupDirect ==
    /\ pol_pc = "call"
    /\ pol_result' = GetRelevantPolicies(policies, pol_arg)
    /\ pol_default' = (pol_arg \notin DOMAIN policies)
    /\ pol_pc' = "done"
    /\ UNCHANGED <<policies, pol_arg, earlier, clsVars, welVars, fmtVars, butPolicy>>

CallRecord == [query |-> query, label |-> pol_arg, result |-> pol_result]

\* the next facade call on the same agent: the same query, in some letter case
NextQuery ==
    /\ cls_pc = "done"
    /\ pol_pc = "done"
    /\ Len(earlier) < MaxEarlierCalls
    /\ earlier' = Append(earlier, CallRecord)
    /\ query' \in CaseVariants(query)
    /\ query_type' = ""
    /\ cls_pc' = "call"
    /\ pol_arg' = ""
    /\ pol_result' = <<>>
    /\ pol_default' = FALSE
    /\ pol_pc' = "wait"
    /\ UNCHANGED <<policies, welVars, fmtVars, butPolicy>>

\* the next direct call on the same agent
NextLookup ==
    /\ cls_pc = "idle"
    /\ pol_pc = "done"
    /\ Len(earlier) < MaxEarlierCalls
    /\ earlier' = Append(earlier, CallRecord)
    /\ pol_arg' \in LookupTopics
    /\ pol_result' = <<>>
    /\ pol_default' = FALSE
    /\ pol_pc' = "call"
    /\ UNCHANGED <<policies, clsVars, welVars, fmtVars, butPolicy>>

NextPolicy == Classify \/ LookupClassified \/ LookupDirect \/ NextQuery \/ NextLookup

SpecPolicy == InitPolicy /\ [][NextPolicy]_vars

-----------------------------------------------------------------------------
(* DataRepository.get_employee_risk_assessment: the latest row of          *)
(* mock_wellness_data of the employee, turned into an assessment dict.     *)
(* A row is a function on the keys it holds; the recommendations of the    *)
(* repository are dicts with a category and a message (kind "dict"; a str  *)
(* item of such a list is [kind |-> "str", text |-> its characters]).      *)

\* thresholds of the repository's own comparisons
REPO_HEART_RATE_LIMIT == 80
REPO_SLEEP_HOURS_MIN == 7
REPO_EXERCISE_MINUTES_MIN == 30
REPO_DAILY_STEPS_MIN == 8000
REPO_STRESS_LEVEL_LIMIT == 6
\* metrics.get(key, 0)
REPO_METRIC_DEFAULT == 0

\* the dict returned when response.data is empty
NO_DATA_ASSESSMENT ==
    [timestamp |-> "None", metrics |-> <<>>, risk_factors |-> <<>>,
     recommendations |-> <<>>, consent_status |-> "unknown", data_source |-> "none"]

\* the dict returned by the except clause
ERROR_ASSESSMENT ==
    [timestamp |-> "None", metrics |-> <<>>, risk_factors |-> <<>>,
     recommendations |-> <<>>, consent_status |-> "unknown", data_source |-> "none"]

REPO_REC_HEART ==
    [kind |-> "dict", category |-> "heart_health",
     message |-> "Your resting heart rate is elevated. Consider cardiovascular exercise and stress reduction techniques."]
REPO_REC_SLEEP ==
    [kind |-> "dict", category |-> "sleep_improvement",
     message |-> "You're getting less than recommended sleep. Try to establish a regular sleep schedule and aim for 7-9 hours per night."]
REPO_REC_EXERCISE ==
    [kind |-> "dict", category |-> "exercise",
     message |-> "Consider increasing your daily physical activity. Aim for at least 30 minutes of moderate exercise most days."]
REPO_REC_ACTIVITY ==
    [kind |-> "dict", category |-> "activity",
     message |-> "Try to increase your daily step count. A goal of 10,000 steps per day can improve overall health."]
REPO_REC_STRESS ==
    [kind |-> "dict", category |-> "stress_management",
     message |-> "Your stress levels are elevated. Consider stress management techniques like meditation or speaking with a counselor."]

\* dict.get(key, default) on a row
RowGet(row, k, default) == IF k \in DOMAIN row THEN row[k] ELSE default

\* metrics.get(key, 0) of the repository
RepoMetricGet(m, k) == IF k \in DOMAIN m THEN m[k] ELSE IntVal(REPO_METRIC_DEFAULT)

\* `value > 80` / `value < 7` between a metric and an int literal raises
\* TypeError unless the metric is a number
Comparable(v) == v.kind = "int"

RepoRecommendations(m) ==
       (IF RepoMetricGet(m, "heart_rate").val > REPO_HEART_RATE_LIMIT
        THEN <<REPO_REC_HEART>> ELSE <<>>)
    \o (IF RepoMetricGet(m, "sleep_hours").val < REPO_SLEEP_HOURS_MIN
        THEN <<REPO_REC_SLEEP>> ELSE <<>>)
    \o (IF RepoMetricGet(m, "exercise_minutes").val < REPO_EXERCISE_MINUTES_MIN
        THEN <<REPO_REC_EXERCISE>> ELSE <<>>)
    \o (IF RepoMetricGet(m, "daily_steps").val < REPO_DAILY_STEPS_MIN
        THEN <<REPO_REC_ACTIVITY>> ELSE <<>>)
    \o (IF RepoMetricGet(m, "stress_level").val > REPO_STRESS_LEVEL_LIMIT
        THEN <<REPO_REC_STRESS>> ELSE <<>>)

\* rows is response.data (at most one row, the latest); fails says that the
\* Supabase query raised. Any exception ends in the except clause.
GetEmployeeRiskAssessment(rows, fails) ==
    IF fails THEN ERROR_ASSESSMENT
    ELSE IF rows = <<>> THEN NO_DATA_ASSESSMENT
    ELSE LET wellness_data == rows[1]
             m  == RowGet(wellness_data, "metrics", <<>>)
             rf == RowGet(wellness_data, "risk_factors", <<>>)
         IN  IF \E k \in MetricKeys : ~Comparable(RepoMetricGet(m, k))
             THEN ERROR_ASSESSMENT
             ELSE [timestamp |-> RowGet(wellness_data, "timestamp", "None"),
                   metrics |-> m,
                   risk_factors |-> rf,
                   recommendations |-> RepoRecommendations(m),
                   consent_status |-> RowGet(wellness_data, "consent_status", "pending"),
                   data_source |-> RowGet(wellness_data, "data_source", "none")]

-----------------------------------------------------------------------------
(* Rows of mock_wellness_data: metrics and risk factors as for the         *)
(* wellness rule engine; consent_status and data_source present or not.    *)

RowTimestamp == "2024-01-15T10:00:00+00:00"

OptionalColumns ==
    { <<>>,
      [k \in {"consent_status"} |-> "granted"],
      [k \in {"data_source"} |-> "fitbit"],
      [k \in {"consent_status", "data_source"} |->
          IF k = "consent_status" THEN "granted" ELSE "fitbit"] }

WellnessRow(m, rf, opt) ==
    [k \in {"timestamp", "metrics", "risk_factors"} \cup DOMAIN opt |->
        CASE k = "timestamp" -> RowTimestamp
          [] k = "metrics" -> m
          [] k = "risk_factors" -> rf
          [] OTHER -> opt[k]]

\* the values a stored metric takes: absent, an int at or next to the
\* threshold, the str "N/A"
RowMetricOptions == {0, 1, 2, 3, 5}

InitRisk ==
    /\ \/ wellness_rows = <<>>
       \/ \E opts \in [MetricKeys -> RowMetricOptions], rf \in RiskInputs, opt \in OptionalColumns :
             wellness_rows = <<WellnessRow(MetricsOf(opts), rf, opt)>>
    /\ db_error \in BOOLEAN
    /\ assessment = <<>>
    /\ risk_pc = "call"
    /\ IdleClassifier
    /\ IdleWellness
    /\ IdleFormatter
    /\ IdleExt("risk")

\* assessment = self.get_employee_risk_assessment(employee_id)
Assess ==
    /\ risk_pc = "call"
    /\ assessment' = GetEmployeeRiskAssessment(wellness_rows, db_error)
    /\ risk_pc' = "done"
    /\ UNCHANGED <<wellness_rows, db_error, clsVars, welVars, fmtVars, butRisk>>

NextRisk == Assess

SpecRisk == InitRisk /\ [][NextRisk]_vars

-----------------------------------------------------------------------------
(* DataRepository.save_chat_interaction and get_chat_history over the      *)
(* table mock_chat_history (id uuid primary key, employee_id, chat_history *)
(* jsonb, timestamp). A message is a dict: a function on the keys it       *)
(* holds. The text of a message is never inspected and is kept as a TLA+   *)
(* string; times are integers.                                             *)

\* chat_history values: {'messages': [...]} written by save_chat_interaction,
\* or a plain list (the seeded rows, and the [] of get_chat_history)
DictOfMessages(msgs) == [kind |-> "dict", messages |-> msgs]
ListOfMessages(msgs) == [kind |-> "list", messages |-> msgs]

\* Mutant: the oldest row of the employee instead of the latest.
SelectOldest(table, e) ==
    LET mine == {i \in 1..Len(table) : table[i].employee_id = e}
    IN  IF mine = {} THEN <<>>
        ELSE <<table[CHOOSE i \in mine : \A j \in mine : table[i].timestamp <= table[j].timestamp]>>

\* .select('chat_history').eq('employee_id', e).order('timestamp', desc=True).limit(1)
SelectLatest(table, e) ==
    LET mine == {i \in 1..Len(table) : table[i].employee_id = e}
    IN  IF mine = {} THEN <<>>
        ELSE <<table[CHOOSE i \in mine : \A j \in mine : table[j].timestamp <= table[i].timestamp]>>

\* get_chat_history: the chat_history of the latest row, [] when there is no
\* row or when the query raises
GetChatHistory(table, e, fails) ==
    IF fails THEN ListOfMessages(<<>>)
    ELSE LET data == SelectLatest(table, e)
         IN  IF data # <<>> THEN data[1].chat_history ELSE ListOfMessages(<<>>)

\* existing_messages of save_chat_interaction
ExistingMessages(data) ==
    IF data # <<>> /\ data[1].chat_history.kind = "dict"
    THEN data[1].chat_history.messages
    ELSE <<>>

\* one message of the normalisation loop: a role/content message is rebuilt
\* with a timestamp (details and suggestions are kept, other keys are not);
\* any other message is taken as it is
NormalizeMessage(msg, now) ==
    IF "role" \in DOMAIN msg /\ "content" \in DOMAIN msg
    THEN [k \in {"role", "content", "timestamp"}
                \cup ({"details", "suggestions"} \cap DOMAIN msg) |->
             IF k = "timestamp" THEN now ELSE msg[k]]
    ELSE msg

NormalizeMessages(msgs, now) == [i \in 1..Len(msgs) |-> NormalizeMessage(msgs[i], now)]

\* save_chat_interaction: the table after the call and the bool returned.
\* fail is "none", "select" (the first query raises) or "upsert" (the upsert
\* raises); upsert without an id inserts a new row.
SaveChatInteraction(table, e, msgs, now, fail) ==
    IF fail # "none" THEN [table |-> table, ok |-> FALSE]
    ELSE LET existing_messages == ExistingMessages(SelectLatest(table, e))
             updated_messages == existing_messages \o NormalizeMessages(msgs, now)
             data == [employee_id |-> e,
                      chat_history |-> DictOfMessages(updated_messages),
                      timestamp |-> now]
         IN  [table |-> Append(table, data), ok |-> TRUE]

-----------------------------------------------------------------------------
(* Calls of the two methods, one after the other, for two employees: up to *)
(* MaxSaves saves, the clock advancing from one to the next. The table     *)
(* starts empty or with the seeded row of EMP001, whose chat_history is a  *)
(* plain list.                                                             *)

MaxSaves == 3

ChatEmployees == {"12345", "EMP001"}

SeedRow ==
    [employee_id |-> "EMP001",
     chat_history |-> ListOfMessages(<<[role |-> "user", content |-> "How do I check my HSA balance?"]>>),
     timestamp |-> 0]

\* messages in the two formats the method documents
MSG_USER == [role |-> "user", content |-> "What is my FSA balance?"]
MSG_ASSISTANT ==
    [role |-> "assistant", content |-> "Your FSA balance is shown in the portal.",
     details |-> "fsa", id |-> "7"]
MSG_UI ==
    [id |-> "1", text |-> "Hello, I have a question about my HSA.", sender |-> "user",
     timestamp |-> 0]

MessageLists ==
    { <<>>, <<MSG_USER>>, <<MSG_UI>>, <<MSG_USER, MSG_ASSISTANT>>, <<MSG_UI, MSG_USER>> }

NoSaves == [e \in ChatEmployees |-> [saves |-> 0, messages |-> <<>>]]

InitChat ==
    /\ chat_table \in {<<>>, <<SeedRow>>}
    /\ clock = 1
    /\ chat_call = [op |-> "none", employee_id |-> "", messages |-> <<>>,
                    ok |-> FALSE, value |-> ListOfMessages(<<>>)]
    /\ stored = NoSaves
    /\ chat_pc = "ready"
    /\ IdleClassifier
    /\ IdleWellness
    /\ IdleFormatter
    /\ IdleExt("chat")

\* success = self.save_chat_interaction(e, msgs)
Save ==
    /\ chat_pc = "ready"
    /\ clock <= MaxSaves
    /\ \E e \in ChatEmployees, msgs \in MessageLists, fail \in {"none", "select", "upsert"} :
          LET r == SaveChatInteraction(chat_table, e, msgs, clock, fail)
          IN  /\ chat_table' = r.table
              /\ chat_call' = [op |-> "save", employee_id |-> e, messages |-> msgs,
                               ok |-> r.ok, value |-> ListOfMessages(<<>>)]
              /\ stored' = IF r.ok
                           THEN [stored EXCEPT ![e] =
                                    [saves |-> @.saves + 1,
                                     messages |-> @.messages \o NormalizeMessages(msgs, clock)]]
                           ELSE stored
    /\ clock' = clock + 1
    /\ UNCHANGED <<chat_pc, clsVars, welVars, fmtVars, butChat>>

\* history = self.get_chat_history(e)
Get ==
    /\ chat_pc = "ready"
    /\ \E e \in ChatEmployees, fails \in BOOLEAN :
          chat_call' = [op |-> "get", employee_id |-> e, messages |-> <<>>,
                        ok |-> ~fails, value |-> GetChatHistory(chat_table, e, fails)]
    /\ UNCHANGED <<chat_table, clock, stored, chat_pc, clsVars, welVars, fmtVars, butChat>>

NextChat == Save \/ Get

SpecChat == InitChat /\ [][NextChat]_vars

-----------------------------------------------------------------------------
(* Repeated calls of the formatter on one ManagerAgent: up to              *)
(* MaxEarlierFormats calls are followed by one more, each on one of a few  *)
(* raw texts, direct or with the action items of analyze_query.            *)

MaxEarlierFormats == 2

\* "no structured sections here"; the two-section text; "Final Answer: Your
\* FSA" alone and after "Thought: hm" / "Reasoning: so"; a recommendations
\* section ended by "Next Steps:"
RepeatedTexts ==
    { RawOf(<<10>>),
      RawOf(<<1, 4, 2, 4>>),
      RawOf(<<7>>),
      RawOf(<<8, 9, 7>>),
      RawOf(<<1, 5, 3, 4>>) }

FormatArgs(q) ==
    { [action_items |-> NoneArg, debug_info |-> <<>>],
      [action_items |-> ListArg(GetActionItems(q)), debug_info |-> <<PolicyDebugEntry>>] }

InitFormatAgain ==
    /\ raw \in RepeatedTexts
    /\ \E i \in 1..Len(FormatQueries) : query = FormatQueries[i]
    /\ query_type = DetermineQueryType(query)
    /\ cls_pc = "done"
    /\ \E a \in FormatArgs(query) :
          arg_action_items = a.action_items /\ arg_debug_info = a.debug_info
    /\ response = NoResponse
    /\ fmt_pc = "call"
    /\ fmt_log = <<>>
    /\ IdleWellness
    /\ IdleExt("log")

\* the next call of _format_response on the same agent
FormatAgain ==
    /\ fmt_pc = "done"
    /\ Len(fmt_log) < MaxEarlierFormats
    /\ fmt_log' = Append(fmt_log, [raw |-> raw, action_items |-> arg_action_items,
                                   response |-> response])
    /\ raw' \in RepeatedTexts
    /\ \E a \in FormatArgs(query) :
          arg_action_items' = a.action_items /\ arg_debug_info' = a.debug_info
    /\ response' = NoResponse
    /\ fmt_pc' = "call"
    /\ UNCHANGED <<clsVars, welVars, butLog>>

NextFormatAgain == Format \/ FormatAgain

SpecFormatAgain == InitFormatAgain /\ [][NextFormatAgain]_vars

-----------------------------------------------------------------------------
(* WellnessAgent.get_wellness_analysis and _format_risk_assessment: the    *)
(* assessment of the repository turned into the wellness_data the facade   *)
(* reads. list(set(...)) leaves the order of the items open, so a call has *)
(* a set of possible outcomes; an outcome with raised = TRUE stands for    *)
(* the exception the call ends with.                                       *)

\* "N/A"
NOT_AVAILABLE == <<"N","/","A">>

\* "Consider scheduling a wellness check-up to establish your baseline health metrics."
MSG_NO_METRICS == <<"C","o","n","s","i","d","e","r"," ","s","c","h","e","d","u","l","i","n","g",
    " ","a"," ","w","e","l","l","n","e","s","s"," ","c","h","e","c","k","-","u","p"," ","t","o",
    " ","e","s","t","a","b","l","i","s","h"," ","y","o","u","r"," ","b","a","s","e","l","i","n",
    "e"," ","h","e","a","l","t","h"," ","m","e","t","r","i","c","s",".">>

\* "unhashable type: 'dict'"
ERR_UNHASHABLE_DICT == <<"u","n","h","a","s","h","a","b","l","e"," ","t","y","p","e",":"," ","'",
    "d","i","c","t","'">>

\* "Processing wellness metrics and risk factors"
WEL_THOUGHT == <<"P","r","o","c","e","s","s","i","n","g"," ","w","e","l","l","n","e","s","s"," ",
    "m","e","t","r","i","c","s"," ","a","n","d"," ","r","i","s","k"," ","f","a","c","t","o","r",
    "s">>

\* "Need to provide health context for benefits decisions"
WEL_REASONING == <<"N","e","e","d"," ","t","o"," ","p","r","o","v","i","d","e"," ","h","e","a",
    "l","t","h"," ","c","o","n","t","e","x","t"," ","f","o","r"," ","b","e","n","e","f","i","t",
    "s"," ","d","e","c","i","s","i","o","n","s">>

\* "No wellness data available"
WEL_EMPTY_THOUGHT == <<"N","o"," ","w","e","l","l","n","e","s","s"," ","d","a","t","a"," ","a",
    "v","a","i","l","a","b","l","e">>

\* "Need to provide default response"
WEL_EMPTY_REASONING == <<"N","e","e","d"," ","t","o"," ","p","r","o","v","i","d","e"," ","d","e",
    "f","a","u","l","t"," ","r","e","s","p","o","n","s","e">>

\* _create_empty_wellness_data
EmptyWellnessData ==
    [metrics |-> [k \in MetricKeys |-> StrVal(NOT_AVAILABLE)],
     risk_factors |-> <<>>,
     recommendations |-> <<>>]

Range(list) == {list[i] : i \in 1..Len(list)}

\* list(set(items)): the distinct items, in any order
SetOrders(S) ==
    {f \in [1..Cardinality(S) -> S] : \A i, j \in 1..Cardinality(S) : i # j => f[i] # f[j]}

Returned(wd, dbg) == [raised |-> FALSE, error |-> <<>>, wellness_data |-> wd, debug_info |-> dbg]
Raised(err) ==
    [raised |-> TRUE, error |-> err, wellness_data |-> EmptyWellnessData,
     debug_info |-> [list |-> TRUE, entries |-> <<>>]]

\* _format_risk_assessment(assessment) for an assessment dict: the set of
\* dicts it can return, empty where set() raises TypeError because a stored
\* recommendation is a dict
FormatRiskAssessments(assessed) ==
    IF DOMAIN assessed.metrics = {}
    THEN {[EmptyWellnessData EXCEPT !.recommendations = <<MSG_NO_METRICS>>]}
    ELSE LET m  == assessed.metrics
             rf == assessed.risk_factors
             existing == assessed.recommendations
             generated == GenerateHealthRecommendations(m, rf)
         IN  IF \E i \in 1..Len(existing) : existing[i].kind = "dict"
             THEN {}
             ELSE LET all == [i \in 1..Len(existing) |-> existing[i].text] \o generated
                  IN  {[metrics |-> [k \in MetricKeys |->
                                        IF k \in DOMAIN m THEN m[k] ELSE StrVal(NOT_AVAILABLE)],
                        risk_factors |-> rf,
                        recommendations |-> o] : o \in SetOrders(Range(all))}

WellnessDebugEntry == [agent |-> "Wellness Agent", thought |-> WEL_THOUGHT, reasoning |-> WEL_REASONING]
WellnessEmptyDebugEntry ==
    [agent |-> "Wellness Agent", thought |-> WEL_EMPTY_THOUGHT, reasoning |-> WEL_EMPTY_REASONING]

\* get_wellness_analysis, given what get_employee_risk_assessment returned:
\* <<>> for None (or {}), <<assessment>> for a dict
GetWellnessAnalyses(returned) ==
    IF returned = <<>>
    THEN {Returned(EmptyWellnessData, [list |-> FALSE, entries |-> <<WellnessEmptyDebugEntry>>])}
    ELSE LET formatted == FormatRiskAssessments(returned[1])
         IN  IF formatted = {} THEN {Raised(ERR_UNHASHABLE_DICT)}
             ELSE {Returned(wd, [list |-> TRUE, entries |-> <<WellnessDebugEntry>>]) :
                      wd \in formatted}

-----------------------------------------------------------------------------
(* ManagerAgent.analyze_query and route_query: the facade. A request is    *)
(* one call of an entry point; its collaborators are the rows the          *)
(* repository finds for the employee, the faults of the two database       *)
(* queries, and what llm_chain.run does with the prompt (a text, or an     *)
(* exception). The steps of analyze_query are taken one at a time, so the  *)
(* calls of concurrent requests interleave at the collaborator calls.      *)

\* "An error occurred while processing your request: "
ERR_PREFIX == <<"A","n"," ","e","r","r","o","r"," ","o","c","c","u","r","r","e","d"," ","w","h",
    "i","l","e"," ","p","r","o","c","e","s","s","i","n","g"," ","y","o","u","r"," ","r","e","q",
    "u","e","s","t",":"," ">>

\* "Please provide more information about your benefits scenario"
EMPTY_NEXT_STEP == <<"P","l","e","a","s","e"," ","p","r","o","v","i","d","e"," ","m","o","r","e",
    " ","i","n","f","o","r","m","a","t","i","o","n"," ","a","b","o","u","t"," ","y","o","u","r",
    " ","b","e","n","e","f","i","t","s"," ","s","c","e","n","a","r","i","o">>

\* "Error occurred during processing"
EMPTY_THOUGHT == <<"E","r","r","o","r"," ","o","c","c","u","r","r","e","d"," ","d","u","r","i",
    "n","g"," ","p","r","o","c","e","s","s","i","n","g">>

\* "Need to provide error message"
EMPTY_REASONING == <<"N","e","e","d"," ","t","o"," ","p","r","o","v","i","d","e"," ","e","r","r",
    "o","r"," ","m","e","s","s","a","g","e">>

\* "Rate limit reached"
ERR_RATE_LIMIT == <<"R","a","t","e"," ","l","i","m","i","t"," ","r","e","a","c","h","e","d">>

\* "any query"
QUERY_ANY == <<"a","n","y"," ","q","u","e","r","y">>

\* DataRepository.get_employee_profile: {} when no row matches, the minimal
\* profile when a query raises; only the employee's name is read later
EMPTY_PROFILE == [empty |-> TRUE, name |-> ""]
MINIMAL_PROFILE == [empty |-> FALSE, name |-> "Unknown"]

GetEmployeeProfile(rows, fails) ==
    IF fails THEN MINIMAL_PROFILE
    ELSE IF rows = <<>> THEN EMPTY_PROFILE
    ELSE [empty |-> FALSE, name |-> rows[1].name]

\* _format_empty_response(message)
FormatEmptyResponse(message) ==
    [message |-> message,
     recommendations |-> <<>>,
     action_items |-> <<>>,
     next_steps |-> <<EMPTY_NEXT_STEP>>,
     debug_info |-> <<[agent |-> "Manager Agent", thought |-> EMPTY_THOUGHT,
                       reasoning |-> EMPTY_REASONING]>>]

\* what a call hands to its caller: a dict, or an exception
Answer(resp, errors) == [raised |-> FALSE, caught |-> errors, response |-> resp]

\* Mutant: the exception leaves analyze_query.
PropagateError(e) == [raised |-> TRUE, caught |-> <<>>, response |-> NoResponse]

\* the except clauses of analyze_query: str(e) goes into the message
HandleError(e) == Answer(FormatEmptyResponse(ERR_PREFIX \o e), <<e>>)

\* route_query: employee_id = context.get("employee_id") if context else "default"
NoContext == [none |-> TRUE, has_id |-> FALSE, employee_id |-> ""]
ContextOf(e) == [none |-> FALSE, has_id |-> TRUE, employee_id |-> e]
ContextWithoutId == [none |-> FALSE, has_id |-> FALSE, employee_id |-> ""]

EmployeeIdOf(req) ==
    IF req.entry = "analyze_query" THEN req.employee_id
    ELSE IF req.context.none THEN "default"
    ELSE IF req.context.has_id THEN req.context.employee_id
    ELSE "None"

\* the local variables of one call of analyze_query
NoLocals ==
    [employee_id |-> "", query |-> <<>>, profile |-> EMPTY_PROFILE, query_type |-> "",
     policies |-> <<>>, debug_info |-> <<>>, wellness_data |-> EmptyWellnessData]

\* Mutant: the calls keep their local variables in one place.
FrameShared(r) == 1

\* every call of analyze_query has its own local variables; the method
\* assigns no attribute of the agent
Frame(r) == r

\* steps 6 and 11 copy agent, thought and reasoning of each debug entry
SanitizeDebug(entries) ==
    [i \in 1..Len(entries) |->
        [agent |-> entries[i].agent, thought |-> entries[i].thought,
         reasoning |-> entries[i].reasoning]]

\* step 1: the arguments are bound and the profile is fetched; a missing
\* profile is not tested for
GetProfile(r) ==
    /\ fpc[r] = "start"
    /\ frame' = [frame EXCEPT ![Frame(r)] =
                    [NoLocals EXCEPT
                        !.employee_id = EmployeeIdOf(requests[r]),
                        !.query = requests[r].query,
                        !.profile = GetEmployeeProfile(world[r].employee_rows,
                                                       world[r].profile_fails)]]
    /\ fpc' = [fpc EXCEPT ![r] = "classify"]
    /\ UNCHANGED <<requests, world, llm_calls, result>>
    /\ UNCHANGED <<clsVars, welVars, fmtVars, butFacade>>

\* steps 2 to 4: the label, the policy statements, the policy debug entry
ClassifyAndLookup(r) ==
    /\ fpc[r] = "classify"
    /\ LET locals == frame[Frame(r)]
           label  == DetermineQueryType(locals.query)
       IN  frame' = [frame EXCEPT ![Frame(r)] =
                        [locals EXCEPT
                            !.query_type = label,
                            !.policies = GetRelevantPolicies(POLICIES, label),
                            !.debug_info = Append(locals.debug_info, PolicyDebugEntry)]]
    /\ fpc' = [fpc EXCEPT ![r] = "wellness"]
    /\ UNCHANGED <<requests, world, llm_calls, result>>
    /\ UNCHANGED <<clsVars, welVars, fmtVars, butFacade>>

\* steps 5 to 8: the wellness analysis; its exception ends the call in the
\* outer except clause
GetWellness(r) ==
    /\ fpc[r] = "wellness"
    /\ LET locals == frame[Frame(r)]
           assessed == GetEmployeeRiskAssessment(world[r].wellness_rows,
                                                 world[r].wellness_fails)
       IN  \E analysis \in GetWellnessAnalyses(<<assessed>>) :
              IF analysis.raised
              THEN /\ result' = [result EXCEPT ![r] = HandleError(analysis.error)]
                   /\ fpc' = [fpc EXCEPT ![r] = "done"]
                   /\ frame' = frame
              ELSE /\ frame' = [frame EXCEPT ![Frame(r)] =
                                  [locals EXCEPT
                                      !.wellness_data = analysis.wellness_data,
                                      !.debug_info = locals.debug_info \o
                                          SanitizeDebug(analysis.debug_info.entries)]]
                   /\ fpc' = [fpc EXCEPT ![r] = "chain"]
                   /\ result' = result
    /\ UNCHANGED <<requests, world, llm_calls>>
    /\ UNCHANGED <<clsVars, welVars, fmtVars, butFacade>>

\* steps 9 to 11: the prompt goes to llm_chain.run once; its text is
\* formatted with _get_action_items(query), its exception ends the call in
\* the inner except clause
RunChain(r) ==
    /\ fpc[r] = "chain"
    /\ llm_calls' = [llm_calls EXCEPT ![r] = @ + 1]
    /\ LET locals == frame[Frame(r)]
           chain == world[r].chain
       IN  result' = [result EXCEPT ![r] =
              IF chain.raised THEN HandleError(chain.text)
              ELSE Answer(FormatResponse(chain.text, SanitizeDebug(locals.debug_info),
                                         ListArg(GetActionItems(locals.query))), <<>>)]
    /\ fpc' = [fpc EXCEPT ![r] = "done"]
    /\ UNCHANGED <<requests, world, frame>>
    /\ UNCHANGED <<clsVars, welVars, fmtVars, butFacade>>

NextFacade ==
    \E r \in DOMAIN requests :
        GetProfile(r) \/ ClassifyAndLookup(r) \/ GetWellness(r) \/ RunChain(r)

-----------------------------------------------------------------------------
(* Requests and collaborators of the facade. The tables hold the sample    *)
(* rows of scripts/setup_wellness_data.py (employees '12345' and '67890';  *)
(* of the metrics only the five the code reads) and the first employee of  *)
(* scripts/seed_db.py; an id no table knows finds no rows.                 *)

SampleMetrics(ss, sl, ex, st, hr) ==
    [k \in MetricKeys |->
        CASE k = "stress_level" -> IntVal(ss)
          [] k = "sleep_hours" -> IntVal(sl)
          [] k = "exercise_minutes" -> IntVal(ex)
          [] k = "daily_steps" -> IntVal(st)
          [] k = "heart_rate" -> IntVal(hr)]

SampleColumns ==
    [k \in {"consent_status", "data_source"} |->
        IF k = "consent_status" THEN "provided" ELSE "health_app"]

WELLNESS_ROW_12345 ==
    WellnessRow(SampleMetrics(7, 6, 20, 6500, 75),
                <<"high_stress", "insufficient_sleep", "sedentary_lifestyle">>, SampleColumns)
WELLNESS_ROW_67890 ==
    WellnessRow(SampleMetrics(4, 8, 45, 12000, 68), <<"none">>, SampleColumns)
EMPLOYEE_ROW_EMP001 == [name |-> "John Smith"]

KnownEmployees == {"12345", "67890", "EMP001"}
FacadeEmployees == KnownEmployees \cup {"unknown-id"}

FacadeQueries == {FormatQueries[i] : i \in 1..Len(FormatQueries)} \cup {QUERY_ANY}

FacadeRequests ==
    {[entry |-> "analyze_query", employee_id |-> e, context |-> NoContext, query |-> q] :
        e \in FacadeEmployees, q \in FacadeQueries}
    \cup
    {[entry |-> "route_query", employee_id |-> "", context |-> c, query |-> q] :
        c \in {NoContext, ContextWithoutId, ContextOf("67890"), ContextOf("unknown-id")},
        q \in FacadeQueries}

ChainOutcomes ==
    {[raised |-> FALSE, text |-> t] : t \in RepeatedTexts}
    \cup {[raised |-> TRUE, text |-> ERR_RATE_LIMIT]}

\* what the collaborators can do for a request of employee e
Worlds(e) ==
    {[employee_rows |-> er, wellness_rows |-> wr, profile_fails |-> pf,
      wellness_fails |-> wf, chain |-> c] :
        er \in IF e \in KnownEmployees THEN {<<>>, <<EMPLOYEE_ROW_EMP001>>} ELSE {<<>>},
        wr \in IF e \in KnownEmployees
               THEN {<<>>, <<WELLNESS_ROW_12345>>, <<WELLNESS_ROW_67890>>} ELSE {<<>>},
        pf \in BOOLEAN, wf \in BOOLEAN, c \in ChainOutcomes}

\* n calls are about to begin
Begin(n) ==
    /\ fpc = [r \in 1..n |-> "start"]
    /\ frame = [s \in 1..n |-> NoLocals]
    /\ llm_calls = [r \in 1..n |-> 0]
    /\ result = [r \in 1..n |-> Answer(NoResponse, <<>>)]
    /\ IdleClassifier
    /\ IdleWellness
    /\ IdleFormatter
    /\ IdleExt("facade")

InitFacade ==
    /\ \E req \in FacadeRequests :
          /\ requests = <<req>>
          /\ \E w \in Worlds(EmployeeIdOf(req)) : world = <<w>>
    /\ Begin(1)

SpecFacade == InitFacade /\ [][NextFacade]_vars

-----------------------------------------------------------------------------
(* Several requests at once: every request is served by its own call of    *)
(* analyze_query on its own ManagerAgent (main.py and routers/manager.py   *)
(* construct one per request), and the calls interleave step by step.      *)

MaxRequests == 3

\* a request together with what its collaborators do
IsolationCases ==
    LET q1 == FormatQueries[1]
        q2 == FormatQueries[2]
        req(e, q) == [entry |-> "analyze_query", employee_id |-> e, context |-> NoContext,
                      query |-> q]
        w(er, wr, c) == [employee_rows |-> er, wellness_rows |-> wr, profile_fails |-> FALSE,
                         wellness_fails |-> FALSE, chain |-> c]
    IN  { [request |-> req("67890", q1),
           world |-> w(<<>>, <<WELLNESS_ROW_67890>>,
                       [raised |-> FALSE, text |-> RawOf(<<1, 4, 2, 4>>)])],
          [request |-> req("EMP001", q2),
           world |-> w(<<EMPLOYEE_ROW_EMP001>>, <<>>,
                       [raised |-> FALSE, text |-> RawOf(<<8, 9, 7>>)])],
          [request |-> req("12345", q1),
           world |-> w(<<>>, <<WELLNESS_ROW_12345>>,
                       [raised |-> FALSE, text |-> RawOf(<<1, 4, 2, 4>>)])],
          [request |-> req("67890", q2),
           world |-> w(<<>>, <<WELLNESS_ROW_67890>>,
                       [raised |-> TRUE, text |-> ERR_RATE_LIMIT])] }

InitIsolation ==
    /\ \E cases \in [1..MaxRequests -> IsolationCases] :
          /\ requests = [r \in 1..MaxRequests |-> cases[r].request]
          /\ world = [r \in 1..MaxRequests |-> cases[r].world]
    /\ Begin(MaxRequests)

SpecIsolation == InitIsolation /\ [][NextFacade]_vars

-----------------------------------------------------------------------------
(* WellnessAgent.get_wellness_analysis on its own: the repository returns  *)
(* None (as the test's mock does), the dict of                             *)
(* get_employee_risk_assessment for a row, for no row or for a failing     *)
(* query, or a dict whose stored recommendations are str (the test         *)
(* fixture).                                                               *)

\* "Increase daily activity"
REC_STORED_ACTIVITY == <<"I","n","c","r","e","a","s","e"," ","d","a","i","l","y"," ","a","c","t","i","v",
    "i","t","y">>

StrItem(text) == [kind |-> "str", text |-> text]

\* a dict as the test fixture returns it; the keys it lacks are not read
FixtureAssessment(m, rf, recs) ==
    [timestamp |-> "None", metrics |-> m, risk_factors |-> rf, recommendations |-> recs,
     consent_status |-> "pending", data_source |-> "none"]

\* per metric: 0 absent, 1 and 3 an int next to the threshold, 4 a str
\* holding a breaching integer; at most MaxBreaches metrics off the healthy side
MaxBreaches == 2

HealthyOption(k) == IF k \in {"heart_rate", "stress_level"} THEN 1 ELSE 3

AnalysisMetrics ==
    {MetricsOf(opts) : opts \in
        {o \in [MetricKeys -> {0, 1, 3, 4}] :
            Cardinality({k \in MetricKeys : o[k] # HealthyOption(k)}) <= MaxBreaches}}

StoredStrRecommendations ==
    { <<>>,
      <<StrItem(REC_STORED_ACTIVITY)>>,
      <<StrItem(MSG_SLEEP)>>,
      <<StrItem(REC_STORED_ACTIVITY), StrItem(REC_STORED_ACTIVITY)>> }

AnalysisInputs ==
    {<<>>}
    \cup {<<GetEmployeeRiskAssessment(rows, fails)>> :
             rows \in {<<>>, <<WELLNESS_ROW_12345>>, <<WELLNESS_ROW_67890>>}
                      \cup {<<WellnessRow(m, rf, SampleColumns)>> :
                               m \in AnalysisMetrics, rf \in RiskInputs},
             fails \in BOOLEAN}
    \cup {<<FixtureAssessment(m, rf, recs)>> :
             m \in AnalysisMetrics, rf \in RiskInputs, recs \in StoredStrRecommendations}

NoAnalysis == Raised(<<>>)

InitAnalysis ==
    /\ wa_returned \in AnalysisInputs
    /\ wa_analysis = NoAnalysis
    /\ wa_pc = "call"
    /\ IdleClassifier
    /\ IdleWellness
    /\ IdleFormatter
    /\ IdleExt("wa")

\* analysis = self.get_wellness_analysis(employee_id)
Analyze ==
    /\ wa_pc = "call"
    /\ wa_analysis' \in GetWellnessAnalyses(wa_returned)
    /\ wa_pc' = "done"
    /\ UNCHANGED <<wa_returned, clsVars, welVars, fmtVars, butAnalysis>>

NextAnalysis == Analyze

SpecAnalysis == InitAnalysis /\ [][NextAnalysis]_vars

-----------------------------------------------------------------------------
(* routers/chat.py: the module-level conversation_store and the two        *)
(* functions that read and update it. Ids are str (sequences of            *)
(* characters), since the key is built by concatenation; None and "" are   *)
(* both <<>>, as the code only tests the id for truth.                     *)

HISTORY_LIMIT == 10

\* key = f"{employer_id}:{employee_id}" if employee_id else employer_id
ConversationKey(employer_id, employee_id) ==
    IF employee_id # <<>> THEN employer_id \o <<":">> \o employee_id ELSE employer_id

\* get_conversation_history
GetConversationHistory(store, employer_id, employee_id) ==
    LET key == ConversationKey(employer_id, employee_id)
    IN  IF key \in DOMAIN store THEN store[key] ELSE <<>>

\* list[-n:]
LastOf(list, n) == SubSeq(list, IF Len(list) > n THEN Len(list) - n + 1 ELSE 1, Len(list))

\* Mutant: the first messages are kept, list[:10].
UpdateConversationHistoryKeepFirst(store, employer_id, message, employee_id) ==
    LET key == ConversationKey(employer_id, employee_id)
        old == IF key \in DOMAIN store THEN store[key] ELSE <<>>
        all == Append(old, message)
    IN  [k \in DOMAIN store \cup {key} |->
            IF k = key THEN SubSeq(all, 1, IF Len(all) > HISTORY_LIMIT THEN HISTORY_LIMIT ELSE Len(all))
            ELSE store[k]]

\* update_conversation_history: the store after the call
UpdateConversationHistory(store, employer_id, message, employee_id) ==
    LET key == ConversationKey(employer_id, employee_id)
        old == IF key \in DOMAIN store THEN store[key] ELSE <<>>
    IN  [k \in DOMAIN store \cup {key} |->
            IF k = key THEN LastOf(Append(old, message), HISTORY_LIMIT) ELSE store[k]]

\* the history of everything appended, per key
Appended(history, employer_id, message, employee_id) ==
    LET key == ConversationKey(employer_id, employee_id)
        old == IF key \in DOMAIN history THEN history[key] ELSE <<>>
    IN  [k \in DOMAIN history \cup {key} |->
            IF k = key THEN Append(old, message) ELSE history[k]]

\* employer "E1" alone and with employee "7"; employer "E1:7" alone has the
\* key of the latter
ConvEmployers == { <<"E","1">>, <<"E","1",":","7">> }
ConvEmployees == { <<>>, <<"7">> }
ConvCallers ==
    {c \in ConvEmployers \X ConvEmployees : ~(c[1] = <<"E","1",":","7">> /\ c[2] # <<>>)}

\* the dict process_chat_message stores; conversation_history inside context
\* is a reference to the list and is not copied here
StoredMessage(timestamp, user_message, agent_response, employer_id, employee_id) ==
    [timestamp |-> timestamp,
     user_message |-> user_message,
     agent_response |-> agent_response,
     context |-> [employer_id |-> employer_id, employee_id |-> employee_id]]

MaxUpdates == 12

Updates == IF DOMAIN conv_appended = {} THEN 0
           ELSE LET RECURSIVE Sum(_)
                    Sum(S) == IF S = {} THEN 0
                              ELSE LET k == CHOOSE x \in S : TRUE
                                   IN  Len(conv_appended[k]) + Sum(S \ {k})
                IN  Sum(DOMAIN conv_appended)

InitStore ==
    /\ conversation_store = <<>>
    /\ conv_appended = <<>>
    /\ chat_requests = <<>> /\ chat_step = <<>> /\ chat_reply = <<>>
    /\ IdleClassifier
    /\ IdleWellness
    /\ IdleFormatter
    /\ IdleExt("conv")

\* update_conversation_history(employer_id, message, employee_id), with any
\* dict as message: here one that differs from the others by its timestamp
Update ==
    /\ Updates < MaxUpdates
    /\ \E c \in ConvCallers :
          LET message == StoredMessage(Updates + 1, FormatQueries[1], NoResponse, <<>>, <<>>)
          IN  /\ conversation_store' =
                    UpdateConversationHistory(conversation_store, c[1], message, c[2])
              /\ conv_appended' = Appended(conv_appended, c[1], message, c[2])
    /\ UNCHANGED <<chat_requests, chat_step, chat_reply>>
    /\ UNCHANGED <<clsVars, welVars, fmtVars, butConversation>>

NextStore == Update

SpecStore == InitStore /\ [][NextStore]_vars

-----------------------------------------------------------------------------
(* routers/chat.py, process_chat_message: one handler call per posted      *)
(* ChatMessage. The handler runs up to `await manager.route_query(...)`,   *)
(* where other requests can run, and from there to its end in one piece.   *)

\* the keys of the dict _format_response and _format_empty_response return
ResultKeys == {"response", "next_steps", "debug_info"}

\* what route_query hands back: a formatted text, or the empty response
RouteResults ==
    { FormatResponse(RawOf(<<1, 4, 2, 4>>), <<PolicyDebugEntry>>,
                     ListArg(GetActionItems(FormatQueries[1]))),
      FormatEmptyResponse(ERR_PREFIX \o ERR_UNHASHABLE_DICT) }

NoReply == [status |-> 0, detail |-> "", stored |-> FALSE, response |-> <<>>]

\* raise HTTPException(status_code=500, detail=f"Error processing your message: {str(e)}")
ErrorReply(e, kept) ==
    [status |-> 500, detail |-> e, stored |-> kept, response |-> <<>>]

\* [step for step in result["next_steps"] if step.strip()]
Suggestions(next_steps) == SelectSeq(next_steps, LAMBDA step : Strip(step) # <<>>)

\* lines 87 to 120 for a result that has the keys the handler reads: the
\* parts of response_message, the details with their defaults, the suggestions
ChatResponseOf(res, employer_id, employee_id) ==
    [message |-> [name |-> "there",
                  body |-> res.message,
                  recommendations |-> res.recommendations],
     details |-> [source |-> "AI Assistant",
                  analysis_type |-> "General Query",
                  processing_flow |-> "Direct Response",
                  conversation_id |-> ConversationKey(employer_id, employee_id)],
     suggestions |-> Suggestions(res.next_steps)]

\* lines 52 to 72: ManagerAgent() raises ValueError without OPENAI_API_KEY;
\* otherwise the context is built, the history read and route_query awaited
ChatBegin(r) ==
    /\ chat_step[r] = "start"
    /\ IF chat_requests[r].api_key
       THEN /\ chat_step' = [chat_step EXCEPT ![r] = "routing"]
            /\ chat_reply' = chat_reply
       ELSE /\ chat_step' = [chat_step EXCEPT ![r] = "done"]
            /\ chat_reply' = [chat_reply EXCEPT ![r] =
                  ErrorReply("OPENAI_API_KEY environment variable is not set", FALSE)]
    /\ UNCHANGED <<conversation_store, conv_appended, chat_requests>>
    /\ UNCHANGED <<clsVars, welVars, fmtVars, butConversation>>

\* lines 72 to 127: route_query has returned; the exchange is stored, then
\* the reply is built, and result["context"] raises KeyError for a dict
\* without that key
ChatFinish(r) ==
    /\ chat_step[r] = "routing"
    /\ LET req == chat_requests[r]
           message == StoredMessage(req.timestamp, req.message, req.result,
                                    req.employer_id, req.employee_id)
       IN  /\ conversation_store' =
                 UpdateConversationHistory(conversation_store, req.employer_id, message,
                                           req.employee_id)
           /\ conv_appended' = Appended(conv_appended, req.employer_id, message, req.employee_id)
           /\ chat_reply' = [chat_reply EXCEPT ![r] =
                 IF "context" \in ResultKeys
                 THEN [status |-> 200, detail |-> "", stored |-> TRUE,
                       response |-> ChatResponseOf(req.result, req.employer_id, req.employee_id)]
                 ELSE ErrorReply("'context'", TRUE)]
    /\ chat_step' = [chat_step EXCEPT ![r] = "done"]
    /\ UNCHANGED chat_requests
    /\ UNCHANGED <<clsVars, welVars, fmtVars, butConversation>>

NextEndpoint == \E r \in DOMAIN chat_requests : ChatBegin(r) \/ ChatFinish(r)

MaxChatRequests == 2

\* the ChatMessage of request r, with what ManagerAgent() and route_query do
ChatRequestsOf(r) ==
    {[employer_id |-> c[1], employee_id |-> c[2], message |-> FormatQueries[1],
      timestamp |-> r, api_key |-> key, result |-> res] :
        c \in ConvCallers, key \in BOOLEAN, res \in RouteResults}

InitEndpoint ==
    /\ conversation_store = <<>>
    /\ conv_appended = <<>>
    /\ chat_requests \in {reqs \in [1..MaxChatRequests -> UNION {ChatRequestsOf(r) : r \in 1..MaxChatRequests}] :
                             \A r \in 1..MaxChatRequests : reqs[r].timestamp = r}
    /\ chat_step = [r \in 1..MaxChatRequests |-> "start"]
    /\ chat_reply = [r \in 1..MaxChatRequests |-> NoReply]
    /\ IdleClassifier
    /\ IdleWellness
    /\ IdleFormatter
    /\ IdleExt("conv")

SpecEndpoint == InitEndpoint /\ [][NextEndpoint]_vars

-----------------------------------------------------------------------------
(* DataRepository.get_relevant_policies(query): the search over the rows   *)
(* of the policy table. Names and texts are str, since the search looks    *)
(* for the query's terms inside them; ids and versions are only copied.    *)

\* str.split(): the maximal runs of characters that are not whitespace
RECURSIVE SplitWhitespace(_)
SplitWhitespace(s) ==
    LET starts == {i \in 1..Len(s) : s[i] \notin Whitespace}
    IN  IF starts = {} THEN <<>>
        ELSE LET a == CHOOSE i \in starts : \A j \in starts : i <= j
                 ends == {i \in a..Len(s) : s[i] \in Whitespace}
                 b == IF ends = {} THEN Len(s) + 1
                      ELSE CHOOSE i \in ends : \A j \in ends : i <= j
             IN  <<SubSeq(s, a, b - 1)>> \o SplitWhitespace(SubSeq(s, b, Len(s)))

\* policy.get(key, '') on a row
PolicyGet(policy, key) == IF key \in DOMAIN policy THEN policy[key] ELSE <<>>

\* the dict appended for a matching row
PolicyEntry(policy) ==
    [policy_id |-> policy.policy_id, policy_name |-> policy.policy_name,
     version |-> policy.version, policy_text |-> policy.policy_text]

\* Mutant: a row matches only when every term of the query occurs in it.
GetRelevantPolicyDocumentsAllTerms(rows, fails, q) ==
    IF fails THEN <<>>
    ELSE LET terms == SplitWhitespace(Upper(q))
             Matches(policy) ==
                 \A i \in 1..Len(terms) :
                     \/ Contains(Upper(PolicyGet(policy, "policy_text")), terms[i])
                     \/ Contains(Upper(PolicyGet(policy, "policy_name")), terms[i])
             hits == SelectSeq(rows, Matches)
         IN  [i \in 1..Len(hits) |-> PolicyEntry(hits[i])]

\* get_relevant_policies(query); rows is response.data, fails says that the
\* query of the table raised, which ends in the except clause
GetRelevantPolicyDocuments(rows, fails, q) ==
    IF fails THEN <<>>
    ELSE IF rows = <<>> THEN <<>>
    ELSE LET terms == SplitWhitespace(Upper(q))
             Matches(policy) ==
                 \E i \in 1..Len(terms) :
                     \/ Contains(Upper(PolicyGet(policy, "policy_text")), terms[i])
                     \/ Contains(Upper(PolicyGet(policy, "policy_name")), terms[i])
             hits == SelectSeq(rows, Matches)
         IN  [i \in 1..Len(hits) |-> PolicyEntry(hits[i])]

-----------------------------------------------------------------------------
(* Rows of the policy table: the seeded policy POL001 (its text cut to the *)
(* first line) and two more, in tables of up to MaxPolicies rows.          *)

\* "HSA Eligibility Guidelines"
POLICY_NAME_HSA == <<"H","S","A"," ","E","l","i","g","i","b","i","l","i","t","y"," ","G","u","i",
    "d","e","l","i","n","e","s">>
\* "Health Savings Account (HSA) Eligibility Guidelines:"
POLICY_TEXT_HSA == <<"H","e","a","l","t","h"," ","S","a","v","i","n","g","s"," ","A","c","c","o",
    "u","n","t"," ","(","H","S","A",")"," ","E","l","i","g","i","b","i","l","i","t","y"," ","G",
    "u","i","d","e","l","i","n","e","s",":">>
\* "FSA Reimbursement Rules"
POLICY_NAME_FSA == <<"F","S","A"," ","R","e","i","m","b","u","r","s","e","m","e","n","t"," ","R",
    "u","l","e","s">>
\* "Submit claims within 90 days"
POLICY_TEXT_FSA == <<"S","u","b","m","i","t"," ","c","l","a","i","m","s"," ","w","i","t","h","i",
    "n"," ","9","0"," ","d","a","y","s">>
\* "Leave Policy"
POLICY_NAME_LEAVE == <<"L","e","a","v","e"," ","P","o","l","i","c","y">>
\* "Paid leave accrues monthly"
POLICY_TEXT_LEAVE == <<"P","a","i","d"," ","l","e","a","v","e"," ","a","c","c","r","u","e","s",
    " ","m","o","n","t","h","l","y">>


PolicyRow(id, name, text) ==
    [policy_id |-> id, policy_name |-> name, category |-> "benefits", policy_text |-> text,
     version |-> "1.0"]

PolicyRows ==
    << PolicyRow("POL001", POLICY_NAME_HSA, POLICY_TEXT_HSA),
       PolicyRow("POL002", POLICY_NAME_FSA, POLICY_TEXT_FSA),
       PolicyRow("POL003", POLICY_NAME_LEAVE, POLICY_TEXT_LEAVE) >>

MaxPolicies == 2

\* the tables: up to MaxPolicies different rows, in any order
PolicyTables ==
    {[i \in DOMAIN ix |-> PolicyRows[ix[i]]] :
        ix \in {f \in UNION {[1..n -> 1..Len(PolicyRows)] : n \in 0..MaxPolicies} :
                   \A i, j \in DOMAIN f : i # j => f[i] # f[j]}}

SearchQueries ==
    {
    \* ""
    <<>>,
    \* "  \t "
    <<" "," ","\t"," ">>,
    \* "FSA reimbursement"
    <<"F","S","A"," ","r","e","i","m","b","u","r","s","e","m","e","n","t">>,
    \* "HSA eligibility"
    <<"H","S","A"," ","e","l","i","g","i","b","i","l","i","t","y">>,
    \* "hsa"
    <<"h","s","a">>,
    \* "cobra"
    <<"c","o","b","r","a">>,
    \* "claims leave"
    <<"c","l","a","i","m","s"," ","l","e","a","v","e">>,
    \* "xyz  days"
    <<"x","y","z"," "," ","d","a","y","s">>,
    \* "a"
    <<"a">>,
    \* "Policy"
    <<"P","o","l","i","c","y">>,
    \* "(hsa)"
    <<"(","h","s","a",")">>,
    \* "rules\nxyz"
    <<"r","u","l","e","s","\n","x","y","z">>
    }

InitSearch ==
    /\ ps_rows \in PolicyTables
    /\ ps_fails \in BOOLEAN
    /\ ps_query \in SearchQueries
    /\ ps_result = <<>>
    /\ ps_pc = "call"
    /\ IdleClassifier
    /\ IdleWellness
    /\ IdleFormatter
    /\ IdleExt("ps")

\* result = repo.get_relevant_policies(query)
Search ==
    /\ ps_pc = "call"
    /\ ps_result' = GetRelevantPolicyDocuments(ps_rows, ps_fails, ps_query)
    /\ ps_pc' = "done"
    /\ UNCHANGED <<ps_rows, ps_fails, ps_query, clsVars, welVars, fmtVars, butSearch>>

NextSearch == Search

SpecSearch == InitSearch /\ [][NextSearch]_vars

-----------------------------------------------------------------------------
(* Inputs of _extract_recommendations: a "Recommendations:" label followed *)
(* by up to MaxSectionLines lines, among them bullet lines, plain lines,   *)
(* marker lines and bullet lines that contain a marker.                    *)

MaxSectionLines == 3

SectionLinePool ==
    <<
    \* "- Do X"
    <<"-"," ","D","o"," ","X">>,
    \* "* Use your HSA"
    <<"*"," ","U","s","e"," ","y","o","u","r"," ","H","S","A">>,
    \* "plain remark"
    <<"p","l","a","i","n"," ","r","e","m","a","r","k">>,
    \* "Action Items:"
    <<"A","c","t","i","o","n"," ","I","t","e","m","s",":">>,
    \* "- Next Steps: call HR"
    <<"-"," ","N","e","x","t"," ","S","t","e","p","s",":"," ","c","a","l","l"," ","H","R">>,
    \* "* action items: file form"
    <<"*"," ","a","c","t","i","o","n"," ","i","t","e","m","s",":"," ","f","i","l","e"," ","f","o",
        "r","m">>
    >>

LabelledTextOf(ls) ==
    Join(<<RawLines[1]>> \o [i \in 1..Len(ls) |-> SectionLinePool[ls[i]]], <<"\n">>)

LabelledTexts ==
    {LabelledTextOf(ls) :
        ls \in UNION {[1..n -> 1..Len(SectionLinePool)] : n \in 0..MaxSectionLines}}

InitExtract ==
    /\ raw \in LabelledTexts
    /\ \E i \in 1..Len(FormatQueries) : query = FormatQueries[i]
    /\ query_type = DetermineQueryType(query)
    /\ cls_pc = "done"
    /\ \E a \in FormatArgs(query) :
          arg_action_items = a.action_items /\ arg_debug_info = a.debug_info
    /\ response = NoResponse
    /\ fmt_pc = "call"
    /\ IdleWellness
    /\ IdleExt("core")

SpecExtract == InitExtract /\ [][NextFormat]_vars

-----------------------------------------------------------------------------
(* analyze_query, steps 2 and 11: the topic and the action items are both  *)
(* selected from the query, by two separate keyword chains.                *)

InitTopic ==
    /\ \E ws \in QueryWordSeqs : query = QueryOf(ws)
    /\ query_type = ""
    /\ cls_pc = "call"
    /\ IdleWellness
    /\ IdleFormatter
    /\ IdleExt("core")

\* action_items = self._get_action_items(query)
SelectActionItems ==
    /\ cls_pc = "done"
    /\ fmt_pc = "idle"
    /\ arg_action_items' = ListArg(GetActionItems(query))
    /\ fmt_pc' = "selected"
    /\ UNCHANGED <<raw, arg_debug_info, response, clsVars, welVars, extVars>>

NextTopic == Classify \/ SelectActionItems

SpecTopic == InitTopic /\ [][NextTopic]_vars

-----------------------------------------------------------------------------
(* EligibilityAgent.analyze_benefits_scenario, _analyze_scenario,          *)
(* _format_response and _format_empty_response                             *)

\* "object dict can't be used in 'await' expression"
ERR_AWAIT_DICT == <<"o","b","j","e","c","t"," ","d","i","c","t"," ","c","a","n","'","t"," ","b",
    "e"," ","u","s","e","d"," ","i","n"," ","'","a","w","a","i","t","'"," ","e","x","p","r","e",
    "s","s","i","o","n">>
\* "Employee not found"
MSG_EMPLOYEE_NOT_FOUND == <<"E","m","p","l","o","y","e","e"," ","n","o","t"," ","f","o","u","n",
    "d">>
\* "Error analyzing benefits scenario: "
ERR_SCENARIO_PREFIX == <<"E","r","r","o","r"," ","a","n","a","l","y","z","i","n","g"," ","b","e",
    "n","e","f","i","t","s"," ","s","c","e","n","a","r","i","o",":"," ">>
\* "eligibility status"
SEC_ELIGIBILITY == <<"e","l","i","g","i","b","i","l","i","t","y"," ","s","t","a","t","u","s">>
\* "recommendations"
SEC_RECOMMENDATIONS == <<"r","e","c","o","m","m","e","n","d","a","t","i","o","n","s">>
\* "action items"
SEC_ACTIONS == <<"a","c","t","i","o","n"," ","i","t","e","m","s">>
\* "policy considerations"
SEC_POLICIES == <<"p","o","l","i","c","y"," ","c","o","n","s","i","d","e","r","a","t","i","o","n",
    "s">>

\* _format_empty_response(message)
EligibilityEmptyResponse(message) ==
    [eligibility_status |-> message, recommendations |-> <<>>,
     action_items |-> <<>>, policy_considerations |-> <<>>]

\* the loop of _format_response over the stripped lines: a line naming a
\* section switches to it, a line of the eligibility section is appended
\* with a blank, a "-" line of a list section is appended without its marker
RECURSIVE ScanSections(_, _, _, _)
ScanSections(lines, i, section, acc) ==
    IF i > Len(lines) THEN acc
    ELSE LET line == Strip(lines[i])
             ll   == Lower(line)
         IN  IF line = <<>> THEN ScanSections(lines, i + 1, section, acc)
             ELSE IF Contains(ll, SEC_ELIGIBILITY)
                  THEN ScanSections(lines, i + 1, "eligibility", acc)
             ELSE IF Contains(ll, SEC_RECOMMENDATIONS)
                  THEN ScanSections(lines, i + 1, "recommendations", acc)
             ELSE IF Contains(ll, SEC_ACTIONS)
                  THEN ScanSections(lines, i + 1, "actions", acc)
             ELSE IF Contains(ll, SEC_POLICIES)
                  THEN ScanSections(lines, i + 1, "policies", acc)
             ELSE ScanSections(lines, i + 1, section,
                    IF section = "eligibility"
                    THEN [acc EXCEPT !.eligibility_status = @ \o line \o <<" ">>]
                    ELSE IF section = "recommendations" /\ line[1] = "-"
                    THEN [acc EXCEPT !.recommendations = Append(@, Strip(Tail(line)))]
                    ELSE IF section = "actions" /\ line[1] = "-"
                    THEN [acc EXCEPT !.action_items = Append(@, Strip(Tail(line)))]
                    ELSE IF section = "policies" /\ line[1] = "-"
                    THEN [acc EXCEPT !.policy_considerations = Append(@, Strip(Tail(line)))]
                    ELSE acc)

\* EligibilityAgent._format_response(analysis_result)
EligibilityFormatResponse(analysis_result) ==
    LET lines   == Split(Strip(analysis_result), <<"\n">>)
        scanned == ScanSections(lines, 1, "none", EligibilityEmptyResponse(<<>>))
    IN  [scanned EXCEPT !.eligibility_status = Strip(@)]

\* `await` applied to the value of a call of a plain (not async) function:
\* an exception of the call propagates, and the dict the call returned is
\* not awaitable, which raises TypeError
AwaitPlainCall(outcome) ==
    IF outcome.raised THEN outcome ELSE Raised(ERR_AWAIT_DICT)

\* the except clause of analyze_benefits_scenario
ScenarioError(e) == EligibilityEmptyResponse(ERR_SCENARIO_PREFIX \o e)

\* the statements of the try block after the profile test: the wellness
\* analysis is awaited, then (policies are searched and) _analyze_scenario
\* calls self.execute once and formats its text
ScenarioOutcomes(w) ==
    LET assessed == GetEmployeeRiskAssessment(w.wellness_rows, w.wellness_fails)
    IN  {LET awaited == AwaitPlainCall(call)
         IN  IF awaited.raised
             THEN [exec_calls |-> 0, response |-> ScenarioError(awaited.error)]
             ELSE IF w.execute.raised
             THEN [exec_calls |-> 1, response |-> ScenarioError(w.execute.text)]
             ELSE [exec_calls |-> 1, response |-> EligibilityFormatResponse(w.execute.text)] :
         call \in GetWellnessAnalyses(<<assessed>>)}

ExecutionTexts ==
    <<
    \* "Eligibility Status:\nEligible for HSA\nRecommendations:\n- Do X\nAction Items:\n- Do Y\nPolicy Considerations:\n- Do Z"
    <<"E","l","i","g","i","b","i","l","i","t","y"," ","S","t","a","t","u","s",":","\n","E","l",
        "i","g","i","b","l","e"," ","f","o","r"," ","H","S","A","\n","R","e","c","o","m","m","e",
        "n","d","a","t","i","o","n","s",":","\n","-"," ","D","o"," ","X","\n","A","c","t","i","o",
        "n"," ","I","t","e","m","s",":","\n","-"," ","D","o"," ","Y","\n","P","o","l","i","c","y",
        " ","C","o","n","s","i","d","e","r","a","t","i","o","n","s",":","\n","-"," ","D","o"," ",
        "Z">>,
    \* "no structured sections here"
    <<"n","o"," ","s","t","r","u","c","t","u","r","e","d"," ","s","e","c","t","i","o","n","s"," ",
        "h","e","r","e">>,
    \* "Recommendations:\n- Do X\nplain remark"
    <<"R","e","c","o","m","m","e","n","d","a","t","i","o","n","s",":","\n","-"," ","D","o"," ",
        "X","\n","p","l","a","i","n"," ","r","e","m","a","r","k">>
    >>

ExecutionOutcomes ==
    {[raised |-> FALSE, text |-> ExecutionTexts[i]] : i \in 1..Len(ExecutionTexts)}
    \cup {[raised |-> TRUE, text |-> ERR_RATE_LIMIT]}

\* what the collaborators can do for a call about employee e
EligibilityWorlds(e) ==
    {[employee_rows |-> er, wellness_rows |-> wr, profile_fails |-> pf,
      wellness_fails |-> wf, execute |-> x] :
        er \in IF e \in KnownEmployees THEN {<<>>, <<EMPLOYEE_ROW_EMP001>>} ELSE {<<>>},
        wr \in IF e \in KnownEmployees
               THEN {<<>>, <<WELLNESS_ROW_12345>>, <<WELLNESS_ROW_67890>>} ELSE {<<>>},
        pf \in BOOLEAN, wf \in BOOLEAN, x \in ExecutionOutcomes}

\* POST /benefits/analyze: a fresh EligibilityAgent is called once
InitEligibility ==
    /\ \E e \in FacadeEmployees, i \in 1..Len(FormatQueries) :
          /\ el_request = [employee_id |-> e, query |-> FormatQueries[i]]
          /\ el_world \in EligibilityWorlds(e)
    /\ el_profile = EMPTY_PROFILE
    /\ el_exec_calls = 0
    /\ el_result = EligibilityEmptyResponse(<<>>)
    /\ el_pc = "start"
    /\ IdleClassifier
    /\ IdleWellness
    /\ IdleFormatter
    /\ IdleExt("el")

\* benefits_status and profile are read; an empty profile ends the call
ReadProfile ==
    /\ el_pc = "start"
    /\ el_profile' = GetEmployeeProfile(el_world.employee_rows, el_world.profile_fails)
    /\ IF el_profile'.empty
       THEN /\ el_result' = EligibilityEmptyResponse(MSG_EMPLOYEE_NOT_FOUND)
            /\ el_pc' = "done"
       ELSE /\ el_result' = el_result
            /\ el_pc' = "profile"
    /\ UNCHANGED <<el_request, el_world, el_exec_calls>>
    /\ UNCHANGED <<clsVars, welVars, fmtVars, butEligibility>>

\* the rest of the try block and its except clause
AnalyzeScenario ==
    /\ el_pc = "profile"
    /\ \E o \in ScenarioOutcomes(el_world) :
          /\ el_exec_calls' = el_exec_calls + o.exec_calls
          /\ el_result' = o.response
    /\ el_pc' = "done"
    /\ UNCHANGED <<el_request, el_world, el_profile>>
    /\ UNCHANGED <<clsVars, welVars, fmtVars, butEligibility>>

NextEligibility == ReadProfile \/ AnalyzeScenario

SpecEligibility == InitEligibility /\ [][NextEligibility]_vars

-----------------------------------------------------------------------------
(* Properties of the query classifier (checked under SpecClassify).        *)

QueryHas(kw) == Contains(Lower(query), kw)

\* C1 (as stated): every query that contains both "fsa" and "reimbursement"
\* (case-insensitive) is classified "FSA Reimbursement Process".
C1_AsStated ==
    (cls_pc = "done" /\ QueryHas(KW_fsa) /\ QueryHas(KW_reimbursement))
        => query_type = "FSA Reimbursement Process"

\* C1 (amended): a query that contains both "fsa" and "reimbursement" is
\* classified "FSA Reimbursement Process" unless it also contains "hsa", in
\* which case the HSA/FSA comparison rule wins and the result is
\* "HSA Benefits"; in neither case is it plain "FSA Benefits".
C1_FsaReimbursement ==
    (cls_pc = "done" /\ QueryHas(KW_fsa) /\ QueryHas(KW_reimbursement))
        => /\ query_type = (IF QueryHas(KW_hsa) THEN "HSA Benefits"
                            ELSE "FSA Reimbursement Process")
           /\ query_type # "FSA Benefits"

\* C1 witness: an upper-case FSA reimbursement query (no "hsa") classified
\* as FSA reimbursement.
C1_Witness ==
    /\ cls_pc = "done"
    /\ QueryHas(KW_fsa) /\ QueryHas(KW_reimbursement) /\ ~QueryHas(KW_hsa)
    /\ ~Contains(query, KW_fsa) /\ ~Contains(query, KW_reimbursement)
    /\ query_type = "FSA Reimbursement Process"

\* C2: a query that contains "hsa" and none of fsa, cobra, contribution,
\* reimbursement is classified "HSA Benefits"; a query that contains none of
\* hsa, fsa, cobra is classified "General Benefits" (all case-insensitive).
C2_HsaOnlyAndGeneral ==
    cls_pc = "done" =>
        /\ (QueryHas(KW_hsa) /\ ~QueryHas(KW_fsa) /\ ~QueryHas(KW_cobra)
              /\ ~QueryHas(KW_contribution) /\ ~QueryHas(KW_reimbursement))
             => query_type = "HSA Benefits"
        /\ (~QueryHas(KW_hsa) /\ ~QueryHas(KW_fsa) /\ ~QueryHas(KW_cobra))
             => query_type = "General Benefits"

\* C2 witness: an upper-case HSA-only query classified "HSA Benefits".
C2_Witness ==
    /\ cls_pc = "done"
    /\ QueryHas(KW_hsa) /\ ~Contains(query, KW_hsa)
    /\ ~QueryHas(KW_fsa) /\ ~QueryHas(KW_cobra)
    /\ ~QueryHas(KW_contribution) /\ ~QueryHas(KW_reimbursement)
    /\ Len(query) > Len(KW_hsa)
    /\ query_type = "HSA Benefits"

-----------------------------------------------------------------------------
(* Properties of the wellness rule engine (checked under SpecWellness).    *)

Present(k) == k \in DOMAIN metrics
Parses(k) == Present(k) /\ IntOf(metrics[k]).ok
Unparseable(k) == Present(k) /\ ~IntOf(metrics[k]).ok

\* the metric is present, numeric, and on the wrong side of its threshold
Breached(k) ==
    /\ Parses(k)
    /\ IF k \in {"heart_rate", "stress_level"}
       THEN IntOf(metrics[k]).val > Threshold(k)
       ELSE IntOf(metrics[k]).val < Threshold(k)

Advisory(k) ==
    CASE k = "heart_rate" -> MSG_HEART_RATE
      [] k = "sleep_hours" -> MSG_SLEEP
      [] k = "exercise_minutes" -> MSG_EXERCISE
      [] k = "daily_steps" -> MSG_STEPS
      [] k = "stress_level" -> MSG_STRESS

MetricOrder == <<"heart_rate", "sleep_hours", "exercise_minutes", "daily_steps", "stress_level">>

RECURSIVE BreachedAdvisoriesFrom(_)
BreachedAdvisoriesFrom(i) ==
    IF i > Len(MetricOrder) THEN <<>>
    ELSE (IF Breached(MetricOrder[i]) THEN <<Advisory(MetricOrder[i])>> ELSE <<>>)
         \o BreachedAdvisoriesFrom(i + 1)

\* one advisory per breached threshold, in the fixed order, then the
\* healthcare-provider sentence iff there are risk factors
ExpectedAdvisories ==
    BreachedAdvisoriesFrom(1) \o (IF risk_factors # <<>> THEN <<MSG_PROVIDER>> ELSE <<>>)

InList(x, list) == \E i \in 1..Len(list) : list[i] = x

\* "heart rate", "sleep", "exercise", "steps", "stress"
AdvisoryTopics ==
    { <<"h","e","a","r","t"," ","r","a","t","e">>, <<"s","l","e","e","p">>,
      <<"e","x","e","r","c","i","s","e">>, <<"s","t","e","p","s">>,
      <<"s","t","r","e","s","s">> }

\* "check-up", "baseline"
CheckupWords == { <<"c","h","e","c","k","-","u","p">>, <<"b","a","s","e","l","i","n","e">> }

MentionsOneOf(s, words) == \E w \in words : Contains(Lower(s), w)

AllParse == \A k \in MetricKeys : Parses(k)

\* C3 (as stated): with all five metrics present and integer-valued the
\* result is exactly the breached advisories in order plus the provider
\* sentence iff risk_factors is non-empty.
C3_AsStated ==
    (wel_pc = "done" /\ AllParse) => recommendations = ExpectedAdvisories

\* C3 (amended): with all five metrics present and integer-valued the result
\* is exactly one advisory per breached threshold (strict comparisons, fixed
\* order) followed by one provider sentence iff risk_factors is non-empty,
\* except that when this list would be empty (nothing breached, no risk
\* factors) the result is the single default check-up sentence. With all
\* five breached and no risk factors it has 5 entries, each mentioning one
\* of heart rate / sleep / exercise / steps / stress.
C3_ThresholdAdvisories ==
    (wel_pc = "done" /\ AllParse) =>
        /\ recommendations =
              (IF ExpectedAdvisories = <<>> THEN <<MSG_DEFAULT>> ELSE ExpectedAdvisories)
        /\ ((\A k \in MetricKeys : Breached(k)) /\ risk_factors = <<>>)
              => /\ Len(recommendations) = 5
                 /\ \A i \in 1..5 : MentionsOneOf(recommendations[i], AdvisoryTopics)

\* C3 witness: heart rate exactly at its threshold (no advisory), the other
\* four breached, two risk factors: four advisories plus one provider
\* sentence.
C3_Witness ==
    /\ wel_pc = "done" /\ AllParse
    /\ IntOf(metrics["heart_rate"]).val = HEART_RATE_LIMIT
    /\ \A k \in MetricKeys \ {"heart_rate"} : Breached(k)
    /\ Len(risk_factors) = 2
    /\ recommendations = <<MSG_SLEEP, MSG_EXERCISE, MSG_STEPS, MSG_STRESS, MSG_PROVIDER>>

\* C4 (as stated): an advisory for a metric appears only if the metric is
\* present and breaches its threshold; recommend({}, []) is exactly one
\* entry containing "check-up" or "baseline".
C4_OnlyPresentMetrics ==
    wel_pc = "done" =>
        /\ \A k \in MetricKeys : InList(Advisory(k), recommendations) => Breached(k)
        /\ (DOMAIN metrics = {} /\ risk_factors = <<>>)
              => /\ Len(recommendations) = 1
                 /\ MentionsOneOf(recommendations[1], CheckupWords)

\* C5 (as stated): a metric that fails to parse only skips its own check;
\* every other metric that parses and breaches its threshold still gets its
\* advisory (and the call returns a list).
C5_UnparseableSkipsOnlyItself ==
    (wel_pc = "done" /\ \E u \in MetricKeys : Unparseable(u)) =>
        \A k \in MetricKeys : Breached(k) => InList(Advisory(k), recommendations)

\* C6 (as stated): the result is never empty, and with no threshold breached
\* and no risk factors it is exactly the single default check-up sentence.
C6_NeverEmptyDefault ==
    wel_pc = "done" =>
        /\ recommendations # <<>>
        /\ ((\A k \in MetricKeys : ~Breached(k)) /\ risk_factors = <<>>)
              => recommendations = <<MSG_DEFAULT>>

-----------------------------------------------------------------------------
(* Properties of the response formatter (checked under SpecFormat).        *)

DirectCall == arg_action_items = NoneArg

TextsOf(ts) == [i \in 1..Len(ts) |-> BulletTexts[ts[i]]]

\* C7 (as stated): for "Recommendations:" + bullet lines + "Action Items:" +
\* bullet lines, formatted with no action_items passed in, recommendations
\* and action_items are the bullet texts of the two groups, marker stripped,
\* trimmed, in order, with their original characters.
C7_TwoSectionsExtracted ==
    (fmt_pc = "done" /\ DirectCall) =>
        \A mk \in BulletMarkers, recs \in BulletLists(2), acts \in BulletLists(1) :
            raw = TwoSectionText(mk, recs, acts)
                => /\ response.recommendations = TextsOf(recs)
                   /\ response.action_items = TextsOf(acts)

\* none of the three list labels (case-insensitive), no "Final Answer:"
NoSectionLabels ==
    /\ ~Contains(Lower(raw), LBL_RECOMMENDATIONS)
    /\ ~Contains(Lower(raw), LBL_ACTION_ITEMS)
    /\ ~Contains(Lower(raw), LBL_NEXT_STEPS)
    /\ ~Contains(raw, RE_FINAL_ANSWER)

\* the default lists a Topic would select
TopicFamily(topic) ==
    IF topic \in {"FSA Benefits", "FSA Reimbursement Process", "FSA Contribution Changes"}
    THEN "fsa"
    ELSE IF topic \in {"HSA Benefits", "HSA Contribution Limits"} THEN "hsa"
    ELSE "general"

\* the default lists the keywords of a text select
KeywordFamily(text) ==
    LET h == Contains(Lower(text), KW_hsa)
        f == Contains(Lower(text), KW_fsa)
    IN  IF h /\ f THEN "both" ELSE IF h THEN "hsa" ELSE IF f THEN "fsa" ELSE "general"

RecDefaultsOf(family) ==
    CASE family = "both" -> REC_DEFAULT_HSA_FSA
      [] family = "hsa" -> REC_DEFAULT_HSA
      [] family = "fsa" -> REC_DEFAULT_FSA
      [] family = "general" -> REC_DEFAULT_GENERAL

ActDefaultsOf(family) ==
    CASE family = "both" -> ACT_DEFAULT_HSA_FSA
      [] family = "hsa" -> ACT_DEFAULT_HSA
      [] family = "fsa" -> ACT_DEFAULT_FSA
      [] family = "general" -> ACT_DEFAULT_GENERAL

RecDefaultLists ==
    {REC_DEFAULT_HSA_FSA, REC_DEFAULT_HSA, REC_DEFAULT_FSA, REC_DEFAULT_GENERAL}

\* C9: for every raw text the recommendations, action_items and next_steps
\* of the formatted response are non-empty; where the text has no
\* "recommendations:" label the recommendations are one of the default lists.
C9_ListsNeverEmpty ==
    fmt_pc = "done" =>
        /\ response.recommendations # <<>>
        /\ response.action_items # <<>>
        /\ response.next_steps # <<>>
        /\ ~Contains(Lower(response.message), LBL_RECOMMENDATIONS)
              => response.recommendations \in RecDefaultLists

\* C9 witness: a "Recommendations:" label with no usable bullet under it
\* (extraction yields nothing) still gives a default list.
C9_Witness ==
    /\ fmt_pc = "done"
    /\ Contains(Lower(response.message), LBL_RECOMMENDATIONS)
    /\ BulletsUnder(response.message, LBL_RECOMMENDATIONS,
                    {LBL_ACTION_ITEMS, LBL_NEXT_STEPS}, FALSE) = <<>>
    /\ response.recommendations \in RecDefaultLists

HasChainLabel == Contains(raw, RE_THOUGHT) \/ Contains(raw, RE_REASONING)

\* C10 (as stated): with "Final Answer:" the message is everything after it,
\* trimmed; without it but with a "Thought:"/"Reasoning:" label chain the
\* message is the text after that chain; otherwise the trimmed raw text.
C10_AsStated ==
    fmt_pc = "done" =>
        response.message =
            (IF Contains(raw, RE_FINAL_ANSWER) THEN Strip(After(raw, RE_FINAL_ANSWER))
             ELSE IF Contains(raw, RE_REASONING) THEN Strip(After(raw, RE_REASONING))
             ELSE IF Contains(raw, RE_THOUGHT) THEN Strip(After(raw, RE_THOUGHT))
             ELSE Strip(raw))

\* C10 (amended): with the case-sensitive literal "Final Answer:" the
\* message is everything after its first occurrence, trimmed; without it the
\* message is the full raw text trimmed, whether or not "Thought:" or
\* "Reasoning:" labels are present (they stay in the message).
C10_MessageExtraction ==
    fmt_pc = "done" =>
        response.message =
            (IF Contains(raw, RE_FINAL_ANSWER) THEN Strip(After(raw, RE_FINAL_ANSWER))
             ELSE Strip(raw))

\* C10 witness: a text with a "Thought:" label and no "Final Answer:" whose
\* message is the whole trimmed text, label included.
C10_Witness ==
    /\ fmt_pc = "done"
    /\ HasChainLabel /\ ~Contains(raw, RE_FINAL_ANSWER)
    /\ response.message = Strip(raw)
    /\ Contains(response.message, RE_THOUGHT)

-----------------------------------------------------------------------------
(* Properties of the classifier/policy-lookup pair (checked under          *)
(* SpecPolicy).                                                            *)

\* the rules of the classifier, most specific first: keywords that must all
\* occur in the lower-cased query, and the label of the rule
ClassifierRules ==
    << [kws |-> {KW_hsa, KW_fsa},           label |-> "HSA Benefits"],
       [kws |-> {KW_fsa, KW_reimbursement}, label |-> "FSA Reimbursement Process"],
       [kws |-> {KW_fsa, KW_contribution},  label |-> "FSA Contribution Changes"],
       [kws |-> {KW_fsa},                   label |-> "FSA Benefits"],
       [kws |-> {KW_hsa, KW_contribution},  label |-> "HSA Contribution Limits"],
       [kws |-> {KW_hsa},                   label |-> "HSA Benefits"],
       [kws |-> {KW_cobra},                 label |-> "COBRA Benefits"],
       [kws |-> {},                         label |-> "General Benefits"] >>

RuleMatches(i, q) == \A kw \in ClassifierRules[i].kws : Contains(Lower(q), kw)

FirstMatchLabel(q) ==
    ClassifierRules[CHOOSE i \in 1..Len(ClassifierRules) :
        RuleMatches(i, q) /\ \A j \in 1..(i - 1) : ~RuleMatches(j, q)].label

\* C15: the classifier is total and deterministic: every classified query has
\* exactly one of the seven topic labels, the label of the first matching rule
\* (General Benefits when no keyword occurs); an earlier call on the same
\* query in any letter case returned the same label; and the label is a key of
\* the policy table, so the lookup that follows returns that topic's own
\* statements without using the default entry.
C15_ClassifierTotal ==
    /\ Cardinality(Topics) = 7
    /\ cls_pc = "done" =>
        /\ query_type \in Topics
        /\ query_type = FirstMatchLabel(query)
        /\ \A i \in 1..Len(earlier) :
              Lower(earlier[i].query) = Lower(query) => earlier[i].label = query_type
        /\ query_type \in DOMAIN policies
    /\ (cls_pc = "done" /\ pol_pc = "done") =>
        /\ ~pol_default
        /\ pol_result = POLICIES[query_type]

\* a second call classified a query that differs from the first one only in
\* letter case, and the lookup of its label has returned
C15_Witness ==
    /\ cls_pc = "done" /\ pol_pc = "done"
    /\ Len(earlier) = 1
    /\ earlier[1].query # query
    /\ query_type = "FSA Reimbursement Process"

\* C16: get_relevant_policies returns, for a key of the table, that topic's
\* statements in their defined order and, for any other topic string, the
\* General Benefits entry; the result is never empty; the table is the same
\* after every lookup, so a repeated lookup gives the same result.
C16_PolicyLookup ==
    pol_pc \in {"wait", "call", "done"} =>
        /\ policies = POLICIES
        /\ pol_pc = "done" =>
            /\ pol_arg \in DOMAIN POLICIES => pol_result = POLICIES[pol_arg]
            /\ pol_arg \notin DOMAIN POLICIES => pol_result = POLICY_GENERAL_BENEFITS
            /\ pol_result # <<>>
            /\ \A i \in 1..Len(earlier) :
                  earlier[i].label = pol_arg => earlier[i].result = pol_result

\* a lookup of a topic that is no key, after an earlier lookup of a key
C16_Witness ==
    /\ pol_pc = "done"
    /\ pol_arg = "FSA-Reimbursement"
    /\ pol_default
    /\ pol_result = POLICY_GENERAL_BENEFITS
    /\ Len(earlier) = 1
    /\ earlier[1].label = "COBRA Benefits"
    /\ earlier[1].result = POLICY_COBRA_BENEFITS

-----------------------------------------------------------------------------
(* Properties of the repository's risk assessment (checked under SpecRisk).*)

\* C19: for an employee with no wellness record get_employee_risk_assessment
\* returns empty metrics, empty risk_factors, empty recommendations,
\* consent_status "pending" and data_source "none" (and it returns: it never
\* raises).
C19_NoRecordAssessment ==
    (risk_pc = "done" /\ wellness_rows = <<>> /\ ~db_error) =>
        /\ assessment.metrics = <<>>
        /\ assessment.risk_factors = <<>>
        /\ assessment.recommendations = <<>>
        /\ assessment.consent_status = "pending"
        /\ assessment.data_source = "none"

\* What the code returns for that employee: the same dict with consent_status
\* "unknown", also when the query itself fails.
NoRecordAssessmentAsCoded ==
    (risk_pc = "done" /\ wellness_rows = <<>>) =>
        /\ assessment.metrics = <<>>
        /\ assessment.risk_factors = <<>>
        /\ assessment.recommendations = <<>>
        /\ assessment.consent_status = "unknown"
        /\ assessment.data_source = "none"

-----------------------------------------------------------------------------
(* Properties of the chat-history methods (checked under SpecChat).        *)

EndsWith(list, tail) ==
    /\ Len(tail) <= Len(list)
    /\ SubSeq(list, Len(list) - Len(tail) + 1, Len(list)) = tail

-----------------------------------------------------------------------------
(* Properties of repeated formatter calls (checked under SpecFormatAgain). *)

-----------------------------------------------------------------------------
(* Properties of the facade.                                               *)

IsList(x) == DOMAIN x = 1..Len(x)

\* the dict has the fields of a structured response, each of its type
WellFormed(resp) ==
    /\ DOMAIN resp = {"message", "recommendations", "action_items", "next_steps", "debug_info"}
    /\ IsList(resp.message)
    /\ IsList(resp.recommendations)
    /\ IsList(resp.action_items)
    /\ IsList(resp.next_steps)
    /\ IsList(resp.debug_info)

\* the wellness analysis of the request ends with an exception
WellnessRaises(r) ==
    \E analysis \in GetWellnessAnalyses(<<GetEmployeeRiskAssessment(world[r].wellness_rows,
                                                                    world[r].wellness_fails)>>) :
        analysis.raised

\* the text generator was called and raised
ChainRaised(r) == llm_calls[r] = 1 /\ world[r].chain.raised

Finished(r) == fpc[r] = "done"

\* the profile store has no employee with the id of the request
NotFound(r) == world[r].employee_rows = <<>> /\ ~world[r].profile_fails

NOT_FOUND == <<"n","o","t"," ","f","o","u","n","d">>

\* C11: when the profile store has no employee with the given id, the
\* facade returns, without raising, a response whose message says that the
\* employee was not found and whose recommendations and action_items are
\* empty, and it neither classifies the query nor calls the text generator.
C11_NotFoundFailClosed ==
    \A r \in DOMAIN requests :
        (Finished(r) /\ NotFound(r)) =>
            /\ ~result[r].raised
            /\ Contains(Lower(result[r].response.message), NOT_FOUND)
            /\ result[r].response.recommendations = <<>>
            /\ result[r].response.action_items = <<>>
            /\ frame[Frame(r)].query_type = ""
            /\ llm_calls[r] = 0

\* C12: whatever the collaborators do, a finished call of analyze_query or
\* route_query has returned a well-formed response and raised nothing; when
\* the wellness analysis or the text generator raised, the message is the
\* error sentence followed by the text of the exception, and the
\* recommendations and action_items are empty.
C12_FacadeNeverRaises ==
    \A r \in DOMAIN requests :
        Finished(r) =>
            /\ ~result[r].raised
            /\ WellFormed(result[r].response)
            /\ (WellnessRaises(r) \/ ChainRaised(r)) =>
                  /\ StartsWith(result[r].response.message, ERR_PREFIX)
                  /\ Len(result[r].response.message) > Len(ERR_PREFIX)
                  /\ result[r].response.recommendations = <<>>
                  /\ result[r].response.action_items = <<>>

\* a route_query call whose text generator raised has returned the error response
C12_Witness ==
    \E r \in DOMAIN requests :
        /\ Finished(r)
        /\ requests[r].entry = "route_query"
        /\ ChainRaised(r)
        /\ result[r].response.message = ERR_PREFIX \o ERR_RATE_LIMIT

\* C13: every call of the facade calls the text generator exactly once; the
\* call is not skipped on a path that returns a response and not repeated.
C13_ExactlyOneGeneration ==
    \A r \in DOMAIN requests :
        /\ llm_calls[r] <= 1
        /\ Finished(r) => llm_calls[r] = 1

\* C14: the recommendations of the response hold every advisory the wellness
\* analysis computed for the employee.
C14_AdvisoriesMerged ==
    \A r \in DOMAIN requests :
        (Finished(r) /\ result[r].caught = <<>>) =>
            \A advisory \in Range(frame[Frame(r)].wellness_data.recommendations) :
                advisory \in Range(result[r].response.recommendations)

\* the four fields of the response the caller reads
Visible(resp) ==
    <<resp.message, resp.recommendations, resp.action_items, resp.next_steps>>

-----------------------------------------------------------------------------
(* Properties of the wellness analysis.                                    *)

NoDuplicates(list) == \A i, j \in 1..Len(list) : i # j => list[i] # list[j]

\* the assessment the repository returned carries metrics
CarriesMetrics == wa_returned # <<>> /\ DOMAIN wa_returned[1].metrics # {}

\* C21: for an assessment that carries metrics, get_wellness_analysis
\* returns without raising; the metrics present and the risk_factors are
\* passed through unchanged and recommendations is the non-empty,
\* duplicate-free union of the stored recommendations and the generated
\* advisories, also when the stored recommendations are the repository's
\* category/message records.
C21_AnalysisWithMetrics ==
    (wa_pc = "done" /\ CarriesMetrics) =>
        LET a  == wa_returned[1]
            wd == wa_analysis.wellness_data
        IN  /\ ~wa_analysis.raised
            /\ \A k \in DOMAIN a.metrics : wd.metrics[k] = a.metrics[k]
            /\ wd.risk_factors = a.risk_factors
            /\ wd.recommendations # <<>>
            /\ NoDuplicates(wd.recommendations)
            /\ {StrItem(wd.recommendations[i]) : i \in 1..Len(wd.recommendations)}
                  = Range(a.recommendations)
                    \cup {StrItem(g) : g \in Range(GenerateHealthRecommendations(a.metrics,
                                                                                 a.risk_factors))}

\* the same for stored recommendations that are str (holds of the code)
AnalysisWithStrRecommendations ==
    (wa_pc = "done" /\ CarriesMetrics
        /\ \A i \in 1..Len(wa_returned[1].recommendations) :
              wa_returned[1].recommendations[i].kind = "str") =>
        LET a  == wa_returned[1]
            wd == wa_analysis.wellness_data
        IN  /\ ~wa_analysis.raised
            /\ \A k \in DOMAIN a.metrics : wd.metrics[k] = a.metrics[k]
            /\ wd.risk_factors = a.risk_factors
            /\ wd.recommendations # <<>>
            /\ NoDuplicates(wd.recommendations)
            /\ {StrItem(wd.recommendations[i]) : i \in 1..Len(wd.recommendations)}
                  = Range(a.recommendations)
                    \cup {StrItem(g) : g \in Range(GenerateHealthRecommendations(a.metrics,
                                                                                 a.risk_factors))}

\* the repository found no wellness record for the employee
NoWellnessRecord == wa_returned = <<NO_DATA_ASSESSMENT>>

\* C22: when the repository has no wellness record for the employee, the
\* wellness_data returned has all five metrics "N/A", no risk factors and
\* no recommendations.
C22_NoDataAnalysis ==
    (wa_pc = "done" /\ NoWellnessRecord) =>
        /\ ~wa_analysis.raised
        /\ \A k \in MetricKeys : wa_analysis.wellness_data.metrics[k] = StrVal(NOT_AVAILABLE)
        /\ wa_analysis.wellness_data.risk_factors = <<>>
        /\ wa_analysis.wellness_data.recommendations = <<>>

\* what the test checks: the repository (a mock) returns None
NoDataAnalysisForNone ==
    (wa_pc = "done" /\ wa_returned = <<>>) => wa_analysis.wellness_data = EmptyWellnessData

-----------------------------------------------------------------------------
(* Properties of the conversation store.                                   *)

\* C27: after any sequence of update_conversation_history calls, every key
\* of conversation_store holds at most 10 messages, namely the most recent
\* min(10, n) of the n messages appended under that key, in append order;
\* an update under one key leaves the history of every other key as it was.
C27_StoreBound ==
    /\ DOMAIN conversation_store = DOMAIN conv_appended
    /\ \A key \in DOMAIN conversation_store :
          LET kept == conversation_store[key]
              all  == conv_appended[key]
              n    == Len(all)
              m    == IF n < HISTORY_LIMIT THEN n ELSE HISTORY_LIMIT
          IN  /\ Len(kept) <= HISTORY_LIMIT
              /\ Len(kept) = m
              /\ \A i \in 1..m : kept[i] = all[n - m + i]

\* eleven messages went under one key, whose oldest is gone, while another
\* key holds its own message
C27_Witness ==
    \E k1, k2 \in DOMAIN conversation_store :
        /\ k1 # k2
        /\ Len(conv_appended[k1]) = HISTORY_LIMIT + 1
        /\ Len(conversation_store[k1]) = HISTORY_LIMIT
        /\ conversation_store[k1][1] = conv_appended[k1][2]
        /\ conversation_store[k2] = conv_appended[k2]
        /\ Len(conversation_store[k2]) = 1

-----------------------------------------------------------------------------
(* Properties of the chat endpoint.                                        *)

\* route_query returned a result to the handler of request r
Routed(r) == chat_step[r] = "done" /\ chat_requests[r].api_key

\* C23: whenever route_query returns a result for a chat message, the
\* handler completes with HTTP 200 and a ChatResponse carrying the message,
\* the details source, analysis_type and processing_flow, and a non-empty
\* suggestions list taken from the result's next_steps; it does not end in
\* an error.
C23_ChatCompletes ==
    \A r \in DOMAIN chat_requests :
        Routed(r) =>
            /\ chat_reply[r].status = 200
            /\ chat_reply[r].response.message.body = chat_requests[r].result.message
            /\ {"source", "analysis_type", "processing_flow"}
                  \subseteq DOMAIN chat_reply[r].response.details
            /\ chat_reply[r].response.suggestions # <<>>
            /\ chat_reply[r].response.suggestions = Suggestions(chat_requests[r].result.next_steps)

\* the exchange of request r is in the store
InStore(r) ==
    \E key \in DOMAIN conversation_store :
        \E i \in 1..Len(conversation_store[key]) :
            conversation_store[key][i].timestamp = chat_requests[r].timestamp

\* C29: a chat request that ends in an error (HTTP 500) leaves
\* conversation_store unchanged; an exchange is appended to the history only
\* for requests that complete successfully.
C29_ErrorLeavesStore ==
    \A r \in DOMAIN chat_requests :
        (chat_step[r] = "done" /\ chat_reply[r].status = 500) => ~InStore(r)

\* the errors raised before route_query is awaited leave the store alone
ErrorBeforeRoutingLeavesStore ==
    \A r \in DOMAIN chat_requests :
        (chat_step[r] = "done" /\ ~chat_requests[r].api_key) =>
            chat_reply[r].status = 500 /\ ~InStore(r)

-----------------------------------------------------------------------------
(* Properties of the policy search.                                        *)

\* the words of the query, in lower case
QueryTerms(q) == {Lower(w) : w \in Range(SplitWhitespace(q))}

\* some word of the query occurs in the row's name or text, whatever the case
Relevant(policy, q) ==
    \E w \in QueryTerms(q) :
        Contains(Lower(policy.policy_name), w) \/ Contains(Lower(policy.policy_text), w)

\* positions of the rows of the table the query is relevant to
RelevantRows(rows, q) == {i \in 1..Len(rows) : Relevant(rows[i], q)}

\* C24: get_relevant_policies returns, in store order, exactly the stored
\* policies for which some whitespace-separated term of the query occurs,
\* case-insensitively, in the name or the text; an empty or whitespace-only
\* query returns nothing, and a failing store gives an empty list.
C24_PolicySearch ==
    ps_pc = "done" =>
        IF ps_fails THEN ps_result = <<>>
        ELSE LET want == RelevantRows(ps_rows, ps_query)
             IN  /\ Len(ps_result) = Cardinality(want)
                 /\ \A i \in want :
                       LET pos == Cardinality({j \in want : j <= i})
                       IN  /\ ps_result[pos].policy_id = ps_rows[i].policy_id
                           /\ ps_result[pos].policy_name = ps_rows[i].policy_name
                           /\ ps_result[pos].version = ps_rows[i].version
                           /\ ps_result[pos].policy_text = ps_rows[i].policy_text
                 /\ (Strip(ps_query) = <<>> => ps_result = <<>>)

\* a two-term query in mixed case has found one of two stored policies, the second
C24_Witness ==
    /\ ps_pc = "done"
    /\ ~ps_fails
    /\ Len(ps_rows) = 2
    /\ Len(SplitWhitespace(ps_query)) = 2
    /\ Len(ps_result) = 1
    /\ ps_result[1].policy_id = ps_rows[2].policy_id
    /\ ps_query # Upper(ps_query)

-----------------------------------------------------------------------------
(* Properties of _extract_recommendations                                  *)

\* the lines of the lower-cased text after the "recommendations:" label
LinesAfterLabel(text) == SectionLines(text, LBL_RECOMMENDATIONS)

IsMarkerLine(line) ==
    Contains(Lower(line), LBL_ACTION_ITEMS) \/ Contains(Lower(line), LBL_NEXT_STEPS)

\* index of the first line that contains a marker, bulleted or not
FirstMarkerLine(lines) ==
    IF \E i \in 1..Len(lines) : IsMarkerLine(lines[i])
    THEN CHOOSE i \in 1..Len(lines) :
            IsMarkerLine(lines[i]) /\ \A j \in 1..(i - 1) : ~IsMarkerLine(lines[j])
    ELSE Len(lines) + 1

IsBulletLine(line) ==
    LET l == Strip(line) IN l # <<>> /\ (l[1] = "-" \/ l[1] = "*")

RECURSIVE BulletsBefore(_, _)
BulletsBefore(lines, n) ==
    IF n = 0 THEN <<>>
    ELSE BulletsBefore(lines, n - 1) \o
         (IF IsBulletLine(lines[n]) /\ Strip(Tail(Strip(lines[n]))) # <<>>
          THEN <<Strip(Tail(Strip(lines[n])))>> ELSE <<>>)

\* the entries the lines before the first marker line contribute
EntriesBeforeMarker(text) ==
    LET lines == LinesAfterLabel(text)
    IN  BulletsBefore(lines, FirstMarkerLine(lines) - 1)

\* C25: recommendations extraction stops at the first line after the
\* "recommendations:" label that contains "action items:" or "next steps:":
\* the extracted entries are exactly the bullets of the lines before that
\* line, whether that line is bulleted or not (the defaults stand in when
\* there is none).
C25_StopsAtMarkerLine ==
    fmt_pc = "done" /\ Contains(Lower(raw), LBL_RECOMMENDATIONS) =>
        response.recommendations =
            IF EntriesBeforeMarker(raw) # <<>> THEN EntriesBeforeMarker(raw)
            ELSE DefaultRecommendations(raw)

\* the same when no bullet line contains a marker
StopsAtPlainMarkerLine ==
    fmt_pc = "done" /\ Contains(Lower(raw), LBL_RECOMMENDATIONS)
    /\ (\A i \in 1..Len(LinesAfterLabel(raw)) :
            IsBulletLine(LinesAfterLabel(raw)[i]) => ~IsMarkerLine(LinesAfterLabel(raw)[i])) =>
        response.recommendations =
            IF EntriesBeforeMarker(raw) # <<>> THEN EntriesBeforeMarker(raw)
            ELSE DefaultRecommendations(raw)

-----------------------------------------------------------------------------
(* Properties of the action items of analyze_query                         *)

LowerAll(items) == [i \in 1..Len(items) |-> Lower(items[i])]

\* the bullet lines under the "action items:" label of the generated text,
\* up to a "next steps:" label, compared without regard to case
ActionBulletsOf(text) ==
    BulletsUnder(ExtractAnswer(text), LBL_ACTION_ITEMS, {LBL_NEXT_STEPS}, FALSE)

Generated(r) == Finished(r) /\ llm_calls[r] = 1 /\ ~world[r].chain.raised

\* C26: when the generated text has an "action items:" label followed by
\* bullet lines, the action_items of the response of analyze_query are those
\* bullet lines; a default list is used only when the extraction yields
\* nothing.
C26_FacadeActionItems ==
    \A r \in DOMAIN requests :
        (Generated(r) /\ ActionBulletsOf(world[r].chain.text) # <<>>) =>
            LowerAll(result[r].response.action_items) = ActionBulletsOf(world[r].chain.text)

\* what the code does: the list selected by the keywords of the query
FacadeActionItemsByQuery ==
    \A r \in DOMAIN requests :
        Generated(r) =>
            result[r].response.action_items = GetActionItems(requests[r].query)

-----------------------------------------------------------------------------
(* Properties of the topic of one response                                 *)

\* the topic each list of _get_action_items is written for
TopicOfItems(items) ==
    IF items = ITEMS_FSA_REIMBURSEMENT THEN "FSA Reimbursement Process"
    ELSE IF items = ITEMS_FSA_CONTRIBUTION THEN "FSA Contribution Changes"
    ELSE IF items = ITEMS_FSA THEN "FSA Benefits"
    ELSE IF items = ITEMS_HSA_CONTRIBUTION THEN "HSA Contribution Limits"
    ELSE IF items = ITEMS_HSA THEN "HSA Benefits"
    ELSE IF items = ITEMS_COBRA THEN "COBRA Benefits"
    ELSE "General Benefits"

ItemsSelected == cls_pc = "done" /\ fmt_pc = "selected"

\* C30: for every query, the action items selected by _get_action_items
\* belong to the topic _determine_query_type assigns to that query.
C30_TopicConsistency ==
    ItemsSelected => TopicOfItems(arg_action_items.items) = query_type

\* the two chains agree on every query that does not name both accounts
TopicConsistencyOneAccount ==
    ItemsSelected /\ ~(Contains(Lower(query), KW_hsa) /\ Contains(Lower(query), KW_fsa)) =>
        TopicOfItems(arg_action_items.items) = query_type

-----------------------------------------------------------------------------
(* Properties of EligibilityAgent.analyze_benefits_scenario                *)

ScenarioDone == el_pc = "done"

IsScenarioError(resp) == StartsWith(resp.eligibility_status, ERR_SCENARIO_PREFIX)

\* the wellness analysis of the call's employee is computed without error
WellnessComputes(w) ==
    \A call \in GetWellnessAnalyses(
                   <<GetEmployeeRiskAssessment(w.wellness_rows, w.wellness_fails)>>) :
        ~call.raised

\* no collaborator of the call fails
CollaboratorsReturn(w) ==
    ~w.profile_fails /\ ~w.wellness_fails /\ ~w.execute.raised /\ WellnessComputes(w)

\* C28: for every employee whose profile is found and whose collaborators
\* return normally, the call invokes the scenario analysis once and returns
\* its formatted result; the error response is returned only when a
\* collaborator fails, and "Employee not found" only for an empty profile.
C28_ScenarioAnalysed ==
    ScenarioDone =>
        /\ (~el_profile.empty /\ CollaboratorsReturn(el_world) =>
                /\ el_exec_calls = 1
                /\ el_result = EligibilityFormatResponse(el_world.execute.text))
        /\ (IsScenarioError(el_result) => ~CollaboratorsReturn(el_world))
        /\ (el_result.eligibility_status = MSG_EMPLOYEE_NOT_FOUND => el_profile.empty)

\* the part that holds: "Employee not found" exactly for an empty profile
NotFoundOnlyForEmptyProfile ==
    ScenarioDone =>
        (el_result = EligibilityEmptyResponse(MSG_EMPLOYEE_NOT_FOUND) <=> el_profile.empty)

\* what the code does once the profile is found: the error response, and
\* no scenario analysis
FoundProfileEndsInError ==
    ScenarioDone /\ ~el_profile.empty =>
        el_exec_calls = 0 /\ IsScenarioError(el_result) /\ el_result.recommendations = <<>>

=============================================================================
